---- MODULE Spec2Model ----
(***************************************************************************)
(* WhatsApp message intake and claim-based processing pipeline:            *)
(*   services/whatsapp-intake.ts   storeIncomingWhatsAppMessages           *)
(*   services/whatsapp-worker.ts   processPendingWhatsAppMessages          *)
(*   routes/worker.ts              POST /internal/worker/process-pending   *)
(* The two Mongo collections (incoming_messages, properties) are the       *)
(* shared state; every await on a collection call is one atomic step.      *)
(*                                                                         *)
(* Time.  Dates that the worker compares (claimed_at, heartbeat_at, the    *)
(* `now` of a claim loop) are kept as AGES: the number of clock ticks that *)
(* have passed since that instant.  `d1 < d2` on dates is `age1 > age2`.   *)
(* first_seen_at / last_seen_at are only ordered among themselves and are  *)
(* kept as the number of the webhook delivery that wrote them.             *)
(***************************************************************************)
EXTENDS Integers, Sequences, FiniteSets, TLC

\* ---------------------------------------------------------------- bounds
NRuns == 2                \* worker invocations that can be alive at once
NMessageIds == 1          \* distinct source message ids the provider sends
NBatchIds == 2            \* source message ids where one batch holds several
MaxDeliveries == 2        \* webhook deliveries
MaxPayload == 1           \* text messages in one webhook payload
ClaimTimeoutTicks == 2    \* CLAIM_TIMEOUT_MS, in clock ticks
MaxClaimTicks == 1        \* ticks that can pass during one claim loop
RequestedBatchSize == 1   \* batchSize a route caller puts in the body
RequestedMaxAttempts == 2 \* maxAttempts a route caller puts in the body
NHandlers == 2            \* webhook deliveries that can be handled at once
MaxListings == 2          \* listings the model returns for one message
MaxWebhooks == 3          \* webhook deliveries where handlers run step by step
TriggerWindowTicks == 3   \* CONCURRENCY_WINDOW_MS, in ticks of the trigger clock
RemoteTimeoutTicks == 1   \* REMOTE_TIMEOUT_MS, in ticks of the trigger clock
MaxPad == 2               \* spaces before and after a long message text
MaxBelowZero == 2         \* how far below zero a number in the route body goes
MaxRequested == 22        \* largest number a route caller puts in the body
MinRequested == 0 - MaxBelowZero
MaxSignature == 3         \* characters after the prefix of a signature header
MaxEnvelope == 1          \* messages in the envelope of one webhook request

\* ------------------------------------------------------ program constants
DEFAULT_BATCH_SIZE == 5
MAX_ATTEMPTS == 3
MAX_MESSAGE_LENGTH == 2400
CLAIM_TIMEOUT_MS == ClaimTimeoutTicks
CONCURRENCY_WINDOW_MS == TriggerWindowTicks
REMOTE_TIMEOUT_MS == RemoteTimeoutTicks

NULL == -1
NoId == ""
NoError == "null"
NoBatch == 0

AgeCap == CLAIM_TIMEOUT_MS + MaxClaimTicks + 1

IdChars == <<"a", "b", "c", "d">>
MessageIds == {IdChars[i] : i \in 1..NMessageIds}
BatchIds == {IdChars[i] : i \in 1..NBatchIds}
\* message texts are sequences of one-character strings
NoText == <<>>
Blank == <<" ", " ">>
Bodies == {NoText, <<"2", " ", "b", "e", "d">>}
TextBodies == Bodies \cup {Blank, <<" ", "2", " ", "b", "e", "d", " ">>}
Runs == 1..NRuns

Min(a, b) == IF a < b THEN a ELSE b
Max(a, b) == IF a > b THEN a ELSE b

VARIABLES
  incoming_messages,  \* the collection: a sequence of documents, _id = index
  properties,         \* the collection: listing _id -> document
  runs,               \* one record per worker invocation slot
  deliveries,         \* webhook deliveries handled so far
  hist,               \* history per incoming message (not program state)
  trigger,            \* whatsapp-worker-trigger.ts: module state and its calls
  intake              \* webhook handlers inside storeIncomingWhatsAppMessages

vars == <<incoming_messages, properties, runs, deliveries, hist, trigger, intake>>

Ids == 1..Len(incoming_messages)

\* whatsapp-worker-trigger.ts at module load: inFlight = false, lastTriggerAt =
\* null; no triggerWorker call has been made.  A call is kept per slot: where
\* it is, and the ticks since it set lastTriggerAt.
IdleCall == [pc |-> "idle", age |-> 0]
IdleTrigger == [remote |-> FALSE, inFlight |-> FALSE, lastTriggerAt |-> NULL,
                calls |-> [c \in Runs |-> IdleCall], last |-> "none",
                rejected |-> FALSE]

\* a webhook handler that is not inside storeIncomingWhatsAppMessages
Handlers == 1..NHandlers
NoResult == [inserted |-> NULL, updated |-> NULL, skipped |-> NULL]
IdleHandler == [pc |-> "idle", n |-> 0, ops |-> <<>>, phase |-> "match", now |-> 0,
                inserted |-> 0, modified |-> 0, writeErrors |-> 0,
                result |-> NoResult]

\* ------------------------------------------------------------------ intake

\* toIncomingMessageDocument: null (the empty sequence) without a string id,
\* else a pending document (a one-element sequence).
toIncomingMessageDocument(normalized, now) ==
  IF normalized.id = NoId THEN <<>>
  ELSE <<[message_id |-> normalized.id,
        dedupe_key |-> normalized.id,
        text |-> normalized.body,
        first_seen_at |-> now,
        last_seen_at |-> now,
        status |-> "pending",
        attempts |-> 0,
        claimed_at |-> NULL,
        heartbeat_at |-> NULL,
        worker_batch_id |-> NoBatch,
        last_error |-> NoError]>>

NewHist == [claims |-> 0, fails |-> 0, sinceClaim |-> NULL, reclaimed |-> FALSE]

\* the updateOne with the document under $set where the code has $setOnInsert
UpsertIncomingSetAll(coll, doc, now) ==
  LET hit == {i \in 1..Len(coll) : coll[i].message_id = doc.message_id} IN
  IF hit = {}
    THEN Append(coll, [doc EXCEPT !.last_seen_at = now])
    ELSE LET i == CHOOSE j \in hit : \A k \in hit : j <= k IN
         [coll EXCEPT ![i] = [doc EXCEPT !.last_seen_at = now]]

\* One updateOne of the bulkWrite: filter on ingest.message_id, $setOnInsert the
\* whole document, $set last_seen_at, upsert: true.
UpsertIncoming(coll, doc, now) ==
  LET hit == {i \in 1..Len(coll) : coll[i].message_id = doc.message_id} IN
  IF hit = {}
    THEN Append(coll, [doc EXCEPT !.last_seen_at = now])
    ELSE LET i == CHOOSE j \in hit : \A k \in hit : j <= k IN
         [coll EXCEPT ![i].last_seen_at = now]

RECURSIVE BulkWrite(_, _, _)
BulkWrite(coll, docs, now) ==
  IF docs = <<>> THEN coll
  ELSE BulkWrite(IF Head(docs) = <<>> THEN coll
                 ELSE UpsertIncoming(coll, Head(docs)[1], now),
                 Tail(docs), now)

\* the text messages parseWebhookPayload finds in a payload, over the ids `ids`
Payloads(ids, len) ==
  UNION {[1..n -> [id : ids \cup {NoId}, body : Bodies]] : n \in 1..len}

storeIncomingWhatsAppMessages(payload) ==
  /\ deliveries < MaxDeliveries
  /\ LET now == deliveries + 1
         docs == [i \in 1..Len(payload) |-> toIncomingMessageDocument(payload[i], now)]
         after == BulkWrite(incoming_messages, docs, now)
     IN /\ incoming_messages' = after
        /\ hist' = hist \o [i \in 1..(Len(after) - Len(incoming_messages)) |-> NewHist]
        /\ deliveries' = now
  /\ UNCHANGED <<properties, runs, trigger, intake>>

\* ------------------------------------------------------------------ worker

IdleRun == [pc |-> "idle", now |-> 0, batchSize |-> 0, maxAttempts |-> 0,
            claimed |-> <<>>, i |-> 0, drafts |-> <<>>, k |-> 0,
            created |-> 0, updated |-> 0, requests |-> 0,
            outcomes |-> <<>>, listingsCreated |-> 0, listingsUpdated |-> 0]

\* generateUuid(): the slot number stands for the run's batch id; the worker
\* only stores it and never compares it.
BatchId(r) == r

\* the values a field of the JSON body can have: absent, a number, or a value
\* of another type
JsonNumber(n) == [type |-> "number", value |-> n]
Absent == [type |-> "undefined", value |-> 0]
JsonValues ==
  {Absent, [type |-> "string", value |-> 7], [type |-> "object", value |-> 0]}
    \cup {JsonNumber(n) : n \in MinRequested..MaxRequested}

\* the route passing the numbers of the body on as they are
WorkerOptionsUnclamped(body) ==
  [batchSize |-> IF body.batchSize.type = "number" THEN body.batchSize.value
                 ELSE DEFAULT_BATCH_SIZE,
   maxAttempts |-> IF body.maxAttempts.type = "number" THEN body.maxAttempts.value
                   ELSE MAX_ATTEMPTS]

\* routes/worker.ts: the numbers of the body, clamped; a field that is absent
\* or no number is passed as undefined and the worker takes its default
WorkerOptions(body) ==
  [batchSize |-> IF body.batchSize.type = "number"
                 THEN Max(1, Min(body.batchSize.value, 20))
                 ELSE DEFAULT_BATCH_SIZE,
   maxAttempts |-> IF body.maxAttempts.type = "number"
                   THEN Max(1, Min(body.maxAttempts.value, 10))
                   ELSE MAX_ATTEMPTS]

\* the body of a trigger-started run (none) and of a route caller
DefaultBody == [batchSize |-> Absent, maxAttempts |-> Absent]
RouteBodies == {DefaultBody,
                [batchSize |-> JsonNumber(RequestedBatchSize),
                 maxAttempts |-> JsonNumber(RequestedMaxAttempts)]}
JsonBodies == [batchSize : JsonValues, maxAttempts : JsonValues]

\* processPendingWhatsAppMessages is entered: options resolved, claim loop starts
StartedRun(body) ==
  LET o == WorkerOptions(body) IN
  [IdleRun EXCEPT !.pc = "claiming",
                  !.batchSize = o.batchSize,
                  !.maxAttempts = o.maxAttempts]

StartRun(r, body) ==
  /\ runs[r].pc \in {"idle", "done", "rejected", "crashed"}
  /\ runs' = [runs EXCEPT ![r] = StartedRun(body)]
  /\ UNCHANGED <<incoming_messages, properties, deliveries, hist, trigger, intake>>

\* the filter with heartbeat_at compared to now where the code has staleBefore
buildClaimFilterNoTimeout(doc, now, maxAttempts, timeoutMs) ==
  /\ doc.attempts < maxAttempts
  /\ \/ doc.status = "pending"
     \/ /\ doc.status = "processing"
        /\ doc.heartbeat_at # NULL
        /\ doc.heartbeat_at >= now

\* buildClaimFilter without the bound on attempts
buildClaimFilterAnyAttempts(doc, now, maxAttempts, timeoutMs) ==
  \/ doc.status = "pending"
  \/ /\ doc.status = "processing"
     /\ doc.heartbeat_at # NULL
     /\ doc.heartbeat_at > now + timeoutMs

\* buildClaimFilter, as a predicate on a document (dates are ages)
buildClaimFilter(doc, now, maxAttempts, timeoutMs) ==
  /\ doc.attempts < maxAttempts
  /\ \/ doc.status = "pending"
     \/ /\ doc.status = "processing"
        /\ doc.heartbeat_at # NULL
        /\ doc.heartbeat_at > now + timeoutMs

\* the claim's update without status: 'processing'
ClaimUpdateKeepsStatus(doc, now, batchId) ==
  [doc EXCEPT !.claimed_at = now,
              !.heartbeat_at = now,
              !.worker_batch_id = batchId,
              !.last_error = NoError,
              !.attempts = @ + 1]

\* the $set / $inc of the claim
ClaimUpdate(doc, now, batchId) ==
  [doc EXCEPT !.status = "processing",
              !.claimed_at = now,
              !.heartbeat_at = now,
              !.worker_batch_id = batchId,
              !.last_error = NoError,
              !.attempts = @ + 1]

Eligible(r) ==
  {i \in Ids : buildClaimFilter(incoming_messages[i], runs[r].now,
                                runs[r].maxAttempts, CLAIM_TIMEOUT_MS)}

\* the document findOneAndUpdate returns (returnDocument: 'after'): the fields
\* the worker reads later
Returned(i, doc) ==
  [_id |-> i, message_id |-> doc.message_id, text |-> doc.text,
   attempts |-> doc.attempts]

\* where the run goes when its claim loop ends
AfterClaim(claimed) == IF Len(claimed) = 0 THEN "counting" ELSE "processing"

\* one findOneAndUpdate of claimPendingMessages (sort first_seen_at ascending)
ClaimOne(r) ==
  /\ runs[r].pc = "claiming"
  /\ Len(runs[r].claimed) < runs[r].batchSize
  /\ \E i \in Eligible(r) :
       /\ \A j \in Eligible(r) :
            incoming_messages[i].first_seen_at <= incoming_messages[j].first_seen_at
       /\ LET doc == ClaimUpdate(incoming_messages[i], runs[r].now, BatchId(r))
              claimed == Append(runs[r].claimed, Returned(i, doc))
          IN /\ incoming_messages' = [incoming_messages EXCEPT ![i] = doc]
             /\ hist' = [hist EXCEPT ![i].claims = @ + 1,
                                     ![i].sinceClaim = 0,
                                     ![i].reclaimed =
                                        @ \/ incoming_messages[i].status = "processing"]
             /\ runs' = [runs EXCEPT
                  ![r].claimed = claimed,
                  ![r].i = 1,
                  ![r].now = IF Len(claimed) < runs[r].batchSize THEN @ ELSE 0,
                  ![r].pc = IF Len(claimed) < runs[r].batchSize
                            THEN "claiming" ELSE AfterClaim(claimed)]
  /\ UNCHANGED <<properties, deliveries, trigger, intake>>

\* findOneAndUpdate finds nothing: break
ClaimNone(r) ==
  /\ runs[r].pc = "claiming"
  /\ Len(runs[r].claimed) < runs[r].batchSize
  /\ Eligible(r) = {}
  /\ runs' = [runs EXCEPT ![r].pc = AfterClaim(runs[r].claimed), ![r].i = 1,
                          ![r].now = 0]
  /\ UNCHANGED <<incoming_messages, properties, deliveries, hist, trigger, intake>>

\* ---------------------------------------------------------------- listings
\* Identifiers are sequences of one-character strings.
Digits == <<"1", "2", "3", "4", "5", "6">>
ListingPrefix == <<"l", "i", "s", "t", "i", "n", "g", "_">>

toLowerCase(c) ==
  CASE c = "A" -> "a" [] c = "B" -> "b" [] c = "L" -> "l" [] OTHER -> c

SafeChars == {"a", "b", "c", "d", "g", "i", "l", "n", "s", "t",
              "1", "2", "3", "4", "5", "6", "_", "-", ":", "."}

RECURSIVE TrimStart(_)
TrimStart(v) == IF v # <<>> /\ Head(v) = " " THEN TrimStart(Tail(v)) ELSE v

RECURSIVE TrimEnd(_)
TrimEnd(v) ==
  IF v # <<>> /\ v[Len(v)] = " " THEN TrimEnd(SubSeq(v, 1, Len(v) - 1)) ELSE v

RECURSIVE CollapseUnderscores(_)
CollapseUnderscores(v) ==
  IF Len(v) < 2 THEN v
  ELSE IF v[1] = "_" /\ v[2] = "_" THEN CollapseUnderscores(Tail(v))
  ELSE <<v[1]>> \o CollapseUnderscores(Tail(v))

sanitizeIdentifier(value, fallback) ==
  IF value = <<>> THEN fallback
  ELSE LET trimmed == TrimEnd(TrimStart(value))
           lowered == [i \in 1..Len(trimmed) |-> toLowerCase(trimmed[i])]
           replaced == [i \in 1..Len(lowered) |->
                          IF lowered[i] \in SafeChars THEN lowered[i] ELSE "_"]
           collapsed == CollapseUnderscores(replaced)
           safe == SubSeq(collapsed, 1, Min(Len(collapsed), 120))
       IN IF Len(safe) > 3 THEN safe ELSE fallback

buildListingId(message, index, proposed) ==
  sanitizeIdentifier(proposed,
                     ListingPrefix \o <<message.message_id, "_", Digits[index + 1]>>)

\* ------------------------------------------------------------ listing schema
\* A JSON value in a member of a listing, by what the coercions look at: its
\* type and, for a string, whether it is blank or reads as a number.
Undefined == "undefined"
JsNull == "null"
RawStrings == {"s:", "s: ", "s:x", "s:1"}
RawNumbers == {"n:0", "n:1"}
NonFinite == {"n:NaN", "n:Infinity"}
RawBooleans == {"b:false", "b:true"}
RawArrays == {"a:", "a:x"}
RawObjects == {"o:", "o:x"}

\* value ?? fallback
Default(value, fallback) == IF value \in {Undefined, JsNull} THEN fallback ELSE value

coerceString(value) ==
  IF value \in RawStrings /\ value \notin {"s:", "s: "} THEN value ELSE JsNull

\* a finite number as it is; of a string, Number(value) when that is finite:
\* Number("") and Number(" ") are 0, Number("x") is NaN
coerceNumber(value) ==
  CASE value \in RawNumbers -> value
    [] value = "s:1" -> "n:1"
    [] value \in {"s:", "s: "} -> "n:0"
    [] OTHER -> JsNull

coerceBoolean(value) ==
  CASE value \in RawBooleans -> value
    [] value = "s:1" -> "b:true"
    [] OTHER -> JsNull

coerceStringArray(value) == IF value \in RawArrays THEN value ELSE "a:"

\* a MoneyValue, every member of it set (currency falls back to NGN), for any
\* object, an array included
coerceMoney(value) ==
  IF value \in RawObjects \cup RawArrays THEN "o:money" ELSE JsNull

\* value && typeof value === 'object' ? value : {}
coerceObject(value) ==
  IF value \in RawObjects \cup RawArrays THEN value ELSE "o:"

\* geo.point: lat and lng of an object, null for anything else
coercePoint(value) ==
  IF value \in RawObjects \cup RawArrays THEN "o:point" ELSE JsNull

\* geo.geocoded_at: a Date of a string that is not blank
coerceDate(value) == IF coerceString(value) # JsNull THEN "d:x" ELSE JsNull

Coerce(kind, value) ==
  CASE kind = "string" -> coerceString(value)
    [] kind = "number" -> coerceNumber(value)
    [] kind = "boolean" -> coerceBoolean(value)
    [] kind = "array" -> coerceStringArray(value)
    [] kind = "money" -> coerceMoney(value)
    [] kind = "object" -> coerceObject(value)
    [] kind = "point" -> coercePoint(value)
    [] kind = "date" -> coerceDate(value)

\* the members normalizeListing and normalizeListingDocument name, the coercion
\* of each and the value after its ??; geo is the geo of address
ListingSchema ==
  [ingest |-> [dedupe_key |-> <<"string", Undefined>>,
               raw_message_id |-> <<"string", Undefined>>,
               group_id |-> <<"string", Undefined>>,
               first_seen_at |-> <<"string", Undefined>>,
               last_seen_at |-> <<"string", Undefined>>],
   status |-> [lifecycle |-> <<"string", "s:active">>,
               verification |-> <<"string", "s:unverified">>,
               extracted_confidence |-> <<"number", "n:0.6">>],
   deal |-> [category |-> <<"string", "s:rent">>,
             price |-> <<"money", JsNull>>,
             fees |-> <<"object", "o:">>],
   property |-> [type |-> <<"string", "s:apartment">>,
                 subtype_note |-> <<"string", JsNull>>,
                 bedrooms |-> <<"number", JsNull>>,
                 bathrooms |-> <<"number", JsNull>>,
                 toilets |-> <<"number", JsNull>>,
                 furnishing |-> <<"string", JsNull>>],
   address |-> [display |-> <<"string", JsNull>>,
                street |-> <<"string", JsNull>>,
                landmark |-> <<"string", JsNull>>,
                area |-> <<"string", JsNull>>,
                district |-> <<"string", JsNull>>,
                city |-> <<"string", JsNull>>,
                lga |-> <<"string", JsNull>>,
                state |-> <<"string", JsNull>>,
                country |-> <<"string", "s:NG">>],
   geo |-> [point |-> <<"point", JsNull>>,
            precision |-> <<"string", "s:area">>,
            geocoder |-> <<"string", JsNull>>,
            geocoded_at |-> <<"date", JsNull>>,
            confidence |-> <<"number", JsNull>>,
            sources |-> <<"array", "a:">>],
   building |-> [estate_name |-> <<"string", JsNull>>,
                 security |-> <<"array", "a:">>,
                 amenities |-> <<"array", "a:">>,
                 notes |-> <<"string", JsNull>>],
   tenant_requirements |-> [profile |-> <<"string", JsNull>>,
                            employment |-> <<"string", JsNull>>,
                            income |-> <<"string", JsNull>>,
                            notes |-> <<"string", JsNull>>],
   media |-> [photos |-> <<"array", "a:">>,
              videos |-> <<"array", "a:">>],
   contact |-> [agent_name |-> <<"string", JsNull>>,
                phones |-> <<"array", "a:">>,
                whatsapp |-> <<"string", JsNull>>,
                agency |-> <<"string", JsNull>>,
                co_broker_allowed |-> <<"boolean", JsNull>>],
   text |-> [title |-> <<"string", JsNull>>,
             description |-> <<"string", JsNull>>,
             keywords |-> <<"array", "a:">>],
   quality |-> [confidence_overall |-> <<"number", JsNull>>,
                unused_data_pct |-> <<"number", JsNull>>,
                field_confidence |-> <<"object", "o:">>],
   audit |-> [source_spans |-> <<"object", "o:">>,
              assumptions |-> <<"array", "a:">>,
              parser_version |-> <<"string", "s:v0.1">>]]

\* the members of a unit, those of its property and deal next to its own
UnitSchema ==
  [unit_id |-> <<"string", "s:U1">>,
   type |-> <<"string", "s:apartment">>,
   bedrooms |-> <<"number", JsNull>>,
   bathrooms |-> <<"number", JsNull>>,
   toilets |-> <<"number", JsNull>>,
   subtype_note |-> <<"string", JsNull>>,
   furnishing |-> <<"string", JsNull>>,
   category |-> <<"string", "s:rent">>,
   price |-> <<"money", JsNull>>,
   fees |-> <<"object", "o:">>,
   quantity |-> <<"number", JsNull>>]

\* a unit of the units array: null unless the value is an object
coerceUnit(value) ==
  IF ~value.object THEN <<>>
  ELSE <<[m \in DOMAIN UnitSchema |->
            Default(Coerce(UnitSchema[m][1], value.members[m]), UnitSchema[m][2])]>>

RECURSIVE coerceUnits(_)
coerceUnits(values) ==
  IF values = <<>> THEN <<>>
  ELSE coerceUnit(Head(values)) \o coerceUnits(Tail(values))

\* a trimmed listing_id, null (no proposal) when nothing is left of it
coerceListingId(value) == TrimEnd(TrimStart(value))

\* normalizeListing of the parser on one element of the listings array
normalizeListing(listing) ==
  [listing_id |-> coerceListingId(listing.listing_id),
   payload |->
     [members |-> [s \in DOMAIN ListingSchema |-> [m \in DOMAIN ListingSchema[s] |->
                     Default(Coerce(ListingSchema[s][m][1], listing.members[s][m]),
                             ListingSchema[s][m][2])]],
      units |-> IF listing.units.array THEN coerceUnits(listing.units.items) ELSE <<>>]]

UnitIds == <<"s:U1", "s:U2", "s:U3">>

\* ensureUnits returning the units as they are
ensureUnitsAsGiven(units) == units

\* ensureUnits of the worker: every member of every unit after its ??, one
\* unit of defaults for no unit
ensureUnits(units) ==
  IF Len(units) > 0
    THEN [idx \in 1..Len(units) |-> [m \in DOMAIN UnitSchema |->
            Default(units[idx][m],
                    IF m = "unit_id" THEN UnitIds[idx] ELSE UnitSchema[m][2])]]
    ELSE <<[m \in DOMAIN UnitSchema |-> UnitSchema[m][2]]>>

\* the proposed key, or whatsapp:<message id>:<index + 1>
buildDedupeKey(message, index, proposed) ==
  IF proposed # JsNull
    THEN [proposed |-> proposed, message_id |-> "", ordinal |-> 0]
    ELSE [proposed |-> JsNull, message_id |-> message.message_id, ordinal |-> index + 1]

\* the substructures upsertListings puts under $set: those of
\* normalizeListingDocument, ingest from the message (its ids are those the
\* intake gave it, group_id null without a context), last_seen_at now
normalizeListingDocument(message, index, listing) ==
  LET given == listing.payload.members IN
  [ingest |-> [source |-> "s:whatsapp",
               raw_message_id |-> message.message_id,
               group_id |-> JsNull,
               message_id |-> message.message_id,
               first_seen_at |-> IF Default(given.ingest.first_seen_at, JsNull) # JsNull
                                   THEN "d:x" ELSE "d:first_seen",
               last_seen_at |-> "d:now",
               dedupe_key |-> buildDedupeKey(message, index,
                                             Default(given.ingest.dedupe_key, JsNull))],
   members |-> [s \in DOMAIN ListingSchema \ {"ingest"} |->
                  [m \in DOMAIN ListingSchema[s] |->
                     Default(given[s][m], ListingSchema[s][m][2])]],
   units |-> ensureUnits(listing.payload.units)]

\* what the extraction model can put in a member: nothing, null, a value of
\* another type than the schema's, a value of the schema's type
Levels == {"missing", "null", "wrong", "full"}

RawValue(kind, level) ==
  CASE level = "missing" -> Undefined
    [] level = "null" -> JsNull
    [] level = "wrong" -> (IF kind \in {"string", "date"} THEN "n:1" ELSE "s:x")
    [] level = "full" ->
         (CASE kind \in {"string", "date"} -> "s:x"
            [] kind = "number" -> "n:1"
            [] kind = "boolean" -> "b:true"
            [] kind = "array" -> "a:x"
            [] OTHER -> "o:x")

RawUnit(object, level) ==
  [object |-> object,
   members |-> [m \in DOMAIN UnitSchema |-> RawValue(UnitSchema[m][1], level)]]

\* the units member: not an array, or an array of up to two elements
RawUnitArrays ==
  {[array |-> FALSE, items |-> <<>>], [array |-> TRUE, items |-> <<>>],
   [array |-> TRUE, items |-> <<RawUnit(FALSE, "missing")>>]}
    \cup {[array |-> TRUE, items |-> <<RawUnit(TRUE, l)>>] : l \in Levels}
    \cup {[array |-> TRUE, items |-> <<RawUnit(FALSE, "missing"), RawUnit(TRUE, l)>>] :
            l \in Levels}
    \cup {[array |-> TRUE, items |-> <<RawUnit(TRUE, "null"), RawUnit(TRUE, l)>>] :
            l \in Levels}

\* one level for every substructure, or one for all but one of them
LevelMaps ==
  {[s \in DOMAIN ListingSchema |-> IF s = one THEN l ELSE rest] :
     one \in DOMAIN ListingSchema, l \in Levels, rest \in {"missing", "full"}}

RawListing(levels, units, listing_id) ==
  [listing_id |-> listing_id,
   members |-> [s \in DOMAIN ListingSchema |-> [m \in DOMAIN ListingSchema[s] |->
                  RawValue(ListingSchema[s][m][1], levels[s])]],
   units |-> units]

EmptyListing ==
  RawListing([s \in DOMAIN ListingSchema |-> "missing"],
             [array |-> FALSE, items |-> <<>>], <<>>)

FullListing ==
  RawListing([s \in DOMAIN ListingSchema |-> "full"],
             [array |-> TRUE, items |-> <<RawUnit(TRUE, "full")>>], <<>>)

\* every kind of value in one numeric member of property, nothing else given
JsonLeaves ==
  {Undefined, JsNull} \cup RawStrings \cup RawNumbers \cup NonFinite
    \cup RawBooleans \cup RawArrays \cup RawObjects

NumericMembers == {"bedrooms", "bathrooms", "toilets"}

NumberListing(m, value) == [EmptyListing EXCEPT !.members.property[m] = value]

\* the elements of the listings array the schema check runs over
RawListings ==
  {RawListing(levels, units, <<>>) : levels \in LevelMaps, units \in RawUnitArrays}

\* what the extraction model can return for one listing: a proposed listing_id
\* (<<>> when it gives none) and the rest of the listing
NoProposal == <<>>
CoreDrafts == [listing_id : {NoProposal}, payload : {normalizeListing(EmptyListing).payload}]
CoreListings == {<<d>> : d \in CoreDrafts}

\* a filled listing, an empty one with a listing_id the model proposes, and up to
\* MaxListings listings for one message
ProposedId == <<"A", "b", "c", "d">>
Drafts == [listing_id : {NoProposal}, payload : {normalizeListing(FullListing).payload}]
            \cup [listing_id : {ProposedId},
                  payload : {normalizeListing(EmptyListing).payload}]
DraftListings == UNION {[1..n -> Drafts] : n \in 1..MaxListings}

\* $push where the code has $addToSet
AddToSetPushes(array, value) == Append(array, value)

\* $addToSet on an array
AddToSet(array, value) ==
  IF \E j \in 1..Len(array) : array[j] = value THEN array ELSE Append(array, value)

\* the write as an insert of a new record where the code upserts by _id
UpsertListingInserts(coll, message, index, draft) ==
  LET id == buildListingId(message, index, draft.listing_id)
      doc == [payload |-> normalizeListingDocument(message, index, draft),
              message_id |-> message.message_id,
              linked_message_ids |-> <<message._id>>]
  IN IF id \in DOMAIN coll THEN (Append(id, "+") :> doc) @@ coll
     ELSE coll @@ (id :> doc)

\* one updateOne of upsertListings: $set the payload, $addToSet the message _id
UpsertListing(coll, message, index, draft) ==
  LET id == buildListingId(message, index, draft.listing_id) IN
  IF id \in DOMAIN coll
    THEN [coll EXCEPT ![id] = [payload |-> normalizeListingDocument(message, index, draft),
                               message_id |-> message.message_id,
                               linked_message_ids |->
                                  AddToSet(coll[id].linked_message_ids, message._id)]]
    ELSE coll @@ (id :> [payload |-> normalizeListingDocument(message, index, draft),
                         message_id |-> message.message_id,
                         linked_message_ids |-> AddToSet(<<>>, message._id)])

\* upsertListings as a whole: the updateOne of every listing, in order
RECURSIVE UpsertFrom(_, _, _, _)
UpsertFrom(coll, message, listings, index) ==
  IF index >= Len(listings) THEN coll
  ELSE UpsertFrom(UpsertListing(coll, message, index, listings[index + 1]),
                  message, listings, index + 1)

upsertListings(coll, message, listings) == UpsertFrom(coll, message, listings, 0)

\* the ids upsertListings resolves the listings of a message to
ListingIdsOf(message, listings) ==
  {buildListingId(message, k - 1, listings[k].listing_id) : k \in 1..Len(listings)}

\* -------------------------------------------------------------- extraction
\* the text cut to MAX_MESSAGE_LENGTH first and trimmed after
sanitizeMessageCutFirst(text) ==
  IF text = NoText THEN [content |-> NoText, truncated |-> FALSE]
  ELSE IF Len(text) <= MAX_MESSAGE_LENGTH
         THEN [content |-> TrimEnd(TrimStart(text)), truncated |-> FALSE]
         ELSE [content |-> TrimEnd(TrimStart(SubSeq(text, 1, MAX_MESSAGE_LENGTH))),
               truncated |-> TRUE]

\* sanitizeMessage of the parser: trimmed, cut to MAX_MESSAGE_LENGTH
sanitizeMessage(text) ==
  IF text = NoText THEN [content |-> NoText, truncated |-> FALSE]
  ELSE LET trimmed == TrimEnd(TrimStart(text)) IN
       IF Len(trimmed) <= MAX_MESSAGE_LENGTH
         THEN [content |-> trimmed, truncated |-> FALSE]
         ELSE [content |-> SubSeq(trimmed, 1, MAX_MESSAGE_LENGTH), truncated |-> TRUE]

\* a request for every text that is not the empty string, trimmed or not
RequestsUntrimmed(text) == IF text = NoText THEN 0 ELSE 1

\* extractListingsFromMessage sends a request to the model only for content
\* that is not empty
Requests(text) == IF sanitizeMessage(text).content = NoText THEN 0 ELSE 1

\* ------------------------------------------------------- message outcomes

\* markMessageProcessed leaving heartbeat_at as the claim set it
markMessageProcessedKeepsHeartbeat(coll, message, batchId) ==
  [coll EXCEPT ![message._id] = [@ EXCEPT !.status = "processed",
                                          !.worker_batch_id = batchId,
                                          !.last_error = NoError]]

markMessageProcessed(coll, message, batchId) ==
  [coll EXCEPT ![message._id] = [@ EXCEPT !.status = "processed",
                                          !.heartbeat_at = NULL,
                                          !.worker_batch_id = batchId,
                                          !.last_error = NoError]]

\* markMessageFailed deciding on attempts + 1 where the code has attempts
markMessageFailedEarly(coll, message, batchId, error, maxAttempts) ==
  LET shouldRetry == message.attempts + 1 < maxAttempts
      nextStatus == IF shouldRetry THEN "pending" ELSE "failed"
  IN [coll EXCEPT ![message._id] = [@ EXCEPT !.status = nextStatus,
                                             !.last_error = error,
                                             !.worker_batch_id = batchId,
                                             !.heartbeat_at = NULL,
                                             !.claimed_at = NULL]]

\* markMessageFailed without the retry: failed whatever attempts is
markMessageFailedNoRetry(coll, message, batchId, error, maxAttempts) ==
  [coll EXCEPT ![message._id] = [@ EXCEPT !.status = "failed",
                                          !.last_error = error,
                                          !.worker_batch_id = batchId,
                                          !.heartbeat_at = NULL,
                                          !.claimed_at = NULL]]

markMessageFailed(coll, message, batchId, error, maxAttempts) ==
  LET shouldRetry == message.attempts < maxAttempts
      nextStatus == IF shouldRetry THEN "pending" ELSE "failed"
  IN [coll EXCEPT ![message._id] = [@ EXCEPT !.status = nextStatus,
                                             !.last_error = error,
                                             !.worker_batch_id = batchId,
                                             !.heartbeat_at = NULL,
                                             !.claimed_at = NULL]]

\* the error text: the extraction call throws before upsertListings is
\* entered, a collection call after
Cur(r) == runs[r].claimed[runs[r].i]

\* the same with a client that sends its request again when the answer is not
\* usable
RequestsNowRetried(r) ==
  IF runs[r].drafts = <<>> THEN 2 * Requests(runs[r].claimed[runs[r].i].text) ELSE 0

\* the request this step of the current message makes: one when the extraction
\* has not returned yet and the content is not empty
RequestsNow(r) == IF runs[r].drafts = <<>> THEN Requests(Cur(r).text) ELSE 0

ThrownError(r) == IF RequestsNow(r) = 1 THEN "ExtractionError" ELSE "StoreError"

\* a loop that ends the batch at the first failed message
LoopNextStopsOnFailure(run, outcome) ==
  [run EXCEPT !.outcomes = Append(@, outcome),
              !.i = @ + 1,
              !.drafts = <<>>,
              !.k = 0,
              !.created = 0,
              !.updated = 0,
              !.pc = IF run.i + 1 > Len(run.claimed) \/ outcome = "failed"
                     THEN "counting" ELSE "processing"]

\* the for loop of processPendingWhatsAppMessages takes the next message
LoopNext(run, outcome) ==
  [run EXCEPT !.outcomes = Append(@, outcome),
              !.i = @ + 1,
              !.drafts = <<>>,
              !.k = 0,
              !.created = 0,
              !.updated = 0,
              !.pc = IF run.i + 1 > Len(run.claimed) THEN "counting" ELSE "processing"]

AtExtract(r) == runs[r].pc = "processing" /\ runs[r].drafts = <<>>

\* processSingleMessage, no usable text: marked processed, no extraction call
SkipNoText(r) ==
  /\ AtExtract(r)
  /\ Cur(r).text = NoText
  /\ incoming_messages' = markMessageProcessed(incoming_messages, Cur(r), BatchId(r))
  /\ runs' = [runs EXCEPT ![r] = LoopNext(@, "skipped")]
  /\ UNCHANGED <<properties, deliveries, hist, trigger, intake>>

\* extraction returns no listings (the content is empty and no request is
\* made, or the model finds none): marked processed, counted as skipped
ExtractEmpty(r) ==
  /\ AtExtract(r)
  /\ Cur(r).text # NoText
  /\ incoming_messages' = markMessageProcessed(incoming_messages, Cur(r), BatchId(r))
  /\ runs' = [runs EXCEPT ![r] =
                LoopNext([@ EXCEPT !.requests = @ + RequestsNow(r)], "skipped")]
  /\ UNCHANGED <<properties, deliveries, hist, trigger, intake>>

\* extraction returns listings: upsertListings is entered
ExtractListings(r, listings) ==
  /\ AtExtract(r)
  /\ Cur(r).text # NoText
  /\ Requests(Cur(r).text) = 1
  /\ runs' = [runs EXCEPT ![r].drafts = listings, ![r].k = 0,
                          ![r].requests = @ + 1]
  /\ UNCHANGED <<incoming_messages, properties, deliveries, hist, trigger, intake>>

\* the next updateOne of upsertListings; created / updated are the counters of
\* this call, which reach the run's totals only when the message succeeds
UpsertNext(r) ==
  /\ runs[r].pc = "processing"
  /\ runs[r].drafts # <<>>
  /\ runs[r].k < Len(runs[r].drafts)
  /\ LET index == runs[r].k
         draft == runs[r].drafts[index + 1]
         id == buildListingId(Cur(r), index, draft.listing_id)
     IN /\ properties' = UpsertListing(properties, Cur(r), index, draft)
        /\ runs' = [runs EXCEPT
             ![r].k = @ + 1,
             ![r].created = @ + (IF id \in DOMAIN properties THEN 0 ELSE 1),
             ![r].updated = @ + (IF id \in DOMAIN properties THEN 1 ELSE 0)]
  /\ UNCHANGED <<incoming_messages, deliveries, hist, trigger, intake>>

\* all listings written: markMessageProcessed
MarkProcessed(r) ==
  /\ runs[r].pc = "processing"
  /\ runs[r].drafts # <<>>
  /\ runs[r].k = Len(runs[r].drafts)
  /\ incoming_messages' = markMessageProcessed(incoming_messages, Cur(r), BatchId(r))
  /\ runs' = [runs EXCEPT ![r] =
                LoopNext([@ EXCEPT !.listingsCreated = @ + runs[r].created,
                                   !.listingsUpdated = @ + runs[r].updated],
                         "processed")]
  /\ UNCHANGED <<properties, deliveries, hist, trigger, intake>>

\* an exception inside the try of processSingleMessage (the extraction call, an
\* updateOne of upsertListings, or markMessageProcessed): markMessageFailed
\* writes the outcome and the loop counts a failure
ProcessingThrows(r) ==
  /\ runs[r].pc = "processing"
  /\ Cur(r).text # NoText
  /\ incoming_messages' = markMessageFailed(incoming_messages, Cur(r), BatchId(r),
                                            ThrownError(r), runs[r].maxAttempts)
  /\ hist' = [hist EXCEPT ![Cur(r)._id].fails = Min(@ + 1, MAX_ATTEMPTS + 1)]
  /\ runs' = [runs EXCEPT ![r] =
                LoopNext([@ EXCEPT !.requests = @ + RequestsNow(r)], "failed")]
  /\ UNCHANGED <<properties, deliveries, trigger, intake>>

\* the status write itself throws (markMessageProcessed of a message without
\* text, or markMessageFailed in the catch): nothing is written, the loop's
\* catch counts a failure
StatusWriteThrows(r) ==
  /\ runs[r].pc = "processing"
  /\ runs' = [runs EXCEPT ![r] =
                LoopNext([@ EXCEPT !.requests = @ + RequestsNow(r)], "failed")]
  /\ UNCHANGED <<incoming_messages, properties, deliveries, hist, trigger, intake>>

\* the WorkerResult a run at its final countDocuments returns
\* the WorkerResult with processed counted before processSingleMessage settles
WorkerResultCountsEarly(r) ==
  LET o == runs[r].outcomes IN
  [batchId |-> BatchId(r),
   claimed |-> Len(runs[r].claimed),
   processed |-> Len(o),
   failed |-> Cardinality({j \in 1..Len(o) : o[j] = "failed"}),
   skipped |-> Cardinality({j \in 1..Len(o) : o[j] = "skipped"}),
   listingsCreated |-> runs[r].listingsCreated,
   listingsUpdated |-> runs[r].listingsUpdated,
   remainingPending |->
      Cardinality({i \in Ids : incoming_messages[i].status = "pending"})]

WorkerResult(r) ==
  LET o == runs[r].outcomes IN
  [batchId |-> BatchId(r),
   claimed |-> Len(runs[r].claimed),
   processed |-> Cardinality({j \in 1..Len(o) : o[j] \in {"processed", "skipped"}}),
   failed |-> Cardinality({j \in 1..Len(o) : o[j] = "failed"}),
   skipped |-> Cardinality({j \in 1..Len(o) : o[j] = "skipped"}),
   listingsCreated |-> runs[r].listingsCreated,
   listingsUpdated |-> runs[r].listingsUpdated,
   remainingPending |->
      Cardinality({i \in Ids : incoming_messages[i].status = "pending"})]

\* countDocuments({status: pending}) and the WorkerResult is returned
Finish(r) ==
  /\ runs[r].pc = "counting"
  /\ runs' = [runs EXCEPT ![r] = [IdleRun EXCEPT !.pc = "done"]]
  /\ UNCHANGED <<incoming_messages, properties, deliveries, hist, trigger, intake>>

\* the error of a collection call of the claim loop caught there, the run
\* going on with the messages claimed so far
StoreErrorSwallowed(r) ==
  /\ runs[r].pc = "claiming"
  /\ runs' = [runs EXCEPT ![r].pc = AfterClaim(runs[r].claimed), ![r].i = 1,
                          ![r].now = 0]
  /\ UNCHANGED <<incoming_messages, properties, deliveries, hist, trigger, intake>>

\* a collection call of the claim loop or the final count throws: the run rejects
StoreErrorRejects(r) ==
  /\ runs[r].pc \in {"claiming", "counting"}
  /\ runs' = [runs EXCEPT ![r] = [IdleRun EXCEPT !.pc = "rejected"]]
  /\ UNCHANGED <<incoming_messages, properties, deliveries, hist, trigger, intake>>

\* the process running the worker dies
Crash(r) ==
  /\ runs[r].pc \in {"claiming", "processing", "counting"}
  /\ runs' = [runs EXCEPT ![r] = [IdleRun EXCEPT !.pc = "crashed"]]
  /\ UNCHANGED <<incoming_messages, properties, deliveries, hist, trigger, intake>>

\* ------------------------------------------------------------------- clock
Older(age, cap) == IF age = NULL THEN NULL ELSE Min(age + 1, cap)

Tick ==
  /\ \A r \in Runs : runs[r].pc = "claiming" => runs[r].now < MaxClaimTicks
  /\ incoming_messages' =
       [i \in Ids |-> [incoming_messages[i] EXCEPT
                         !.claimed_at = Older(@, AgeCap),
                         !.heartbeat_at = Older(@, AgeCap)]]
  /\ hist' = [i \in Ids |-> [hist[i] EXCEPT
                               !.sinceClaim = Older(@, CLAIM_TIMEOUT_MS)]]
  /\ runs' = [r \in Runs |-> IF runs[r].pc = "claiming"
                             THEN [runs[r] EXCEPT !.now = @ + 1] ELSE runs[r]]
  /\ UNCHANGED <<properties, deliveries, trigger, intake>>

\* ----------------------------------------------------------------- trigger
\* shouldTrigger: false only while a call is in flight and the window since
\* lastTriggerAt has not passed (lastTriggerAt is an age)
Elapsed(t) == IF t.lastTriggerAt # NULL THEN t.lastTriggerAt ELSE 0

shouldTrigger(t) == ~(t.inFlight /\ Elapsed(t) < CONCURRENCY_WINDOW_MS)

\* triggerRemoteWorker: a response, 2xx or not, returns; a fetch that fails
\* or is aborted by the timeout throws through the finally
triggerRemoteWorker(response) ==
  IF response \in {"ok", "non2xx"} THEN "returned" ELSE "threw"

RemoteResponses == {"ok", "non2xx", "failed", "aborted"}

\* the try of triggerWorker without its catch
TriggerOutcomeUncaught(completion) ==
  CASE completion = "returned" -> "resolved"
    [] completion = "threw" -> "rejected"

\* the try / catch of triggerWorker: what is thrown inside is logged
TriggerOutcome(completion) ==
  CASE completion = "returned" -> "resolved"
    [] completion = "threw" -> "resolved"

\* triggerWorker up to its await, shouldTrigger() being true: the flag and the
\* time are set, then the remote request or the in-process run is started
TriggerStarted(t, c) ==
  [t EXCEPT !.inFlight = TRUE,
            !.lastTriggerAt = 0,
            !.calls[c] = [pc |-> IF t.remote THEN "remote" ELSE "local", age |-> 0]]

\* triggerWorker clearing inFlight at the end of its try, with no finally
TriggerSettledNoFinally(t, c, completion) ==
  [t EXCEPT !.inFlight = IF completion = "threw" THEN @ ELSE FALSE,
            !.calls[c] = IdleCall,
            !.last = completion,
            !.rejected = @ \/ TriggerOutcome(completion) = "rejected"]

\* triggerWorker after its await: catch, then finally inFlight = false
TriggerSettled(t, c, completion) ==
  [t EXCEPT !.inFlight = FALSE,
            !.calls[c] = IdleCall,
            !.last = completion,
            !.rejected = @ \/ TriggerOutcome(completion) = "rejected"]

FreeSlot(c) ==
  /\ trigger.calls[c].pc = "idle"
  /\ runs[c].pc \in {"idle", "done", "rejected", "crashed"}

\* the run a trigger call awaits returns its WorkerResult
TriggerRunReturns(c) ==
  /\ trigger.calls[c].pc = "local"
  /\ runs[c].pc = "counting"
  /\ runs' = [runs EXCEPT ![c] = [IdleRun EXCEPT !.pc = "done"]]
  /\ trigger' = TriggerSettled(trigger, c, "returned")
  /\ UNCHANGED <<incoming_messages, properties, deliveries, hist, intake>>

\* the run a trigger call awaits rejects (a collection call of the claim loop
\* or the final count throws)
TriggerRunThrows(c) ==
  /\ trigger.calls[c].pc = "local"
  /\ runs[c].pc \in {"claiming", "counting"}
  /\ runs' = [runs EXCEPT ![c] = [IdleRun EXCEPT !.pc = "rejected"]]
  /\ trigger' = TriggerSettled(trigger, c, "threw")
  /\ UNCHANGED <<incoming_messages, properties, deliveries, hist, intake>>

\* the remote request of a trigger call ends
RemoteSettles(c, response) ==
  /\ trigger.calls[c].pc = "remote"
  /\ trigger' = TriggerSettled(trigger, c, triggerRemoteWorker(response))
  /\ UNCHANGED <<incoming_messages, properties, runs, deliveries, hist, intake>>

\* the clock of the trigger: Date.now() moves on; the remote request is
\* aborted when REMOTE_TIMEOUT_MS have passed
TriggerTick ==
  /\ \A c \in Runs :
       trigger.calls[c].pc = "remote" => trigger.calls[c].age < REMOTE_TIMEOUT_MS
  /\ \/ trigger.lastTriggerAt # NULL /\ trigger.lastTriggerAt < CONCURRENCY_WINDOW_MS
     \/ \E c \in Runs : /\ trigger.calls[c].pc # "idle"
                         /\ trigger.calls[c].age < CONCURRENCY_WINDOW_MS
  /\ trigger' = [trigger EXCEPT
       !.lastTriggerAt = Older(@, CONCURRENCY_WINDOW_MS),
       !.calls = [c \in Runs |->
                   IF trigger.calls[c].pc = "idle" THEN trigger.calls[c]
                   ELSE [trigger.calls[c] EXCEPT
                           !.age = Min(@ + 1, CONCURRENCY_WINDOW_MS)]]]
  /\ UNCHANGED <<incoming_messages, properties, runs, deliveries, hist, intake>>

\* ---------------------------------------------------- intake, step by step
\* the index on ingest.message_id without its unique option
IndexNotUnique(coll, doc) == TRUE

\* the unique index on ingest.message_id: an insert is refused when a document
\* with the key is stored
UniqueIndexAllows(coll, doc) ==
  \A i \in 1..Len(coll) : coll[i].message_id # doc.message_id

\* the operations storeIncomingWhatsAppMessages builds: one per document
RECURSIVE Operations(_)
Operations(docs) ==
  IF docs = <<>> THEN <<>>
  ELSE Head(docs) \o Operations(Tail(docs))

\* the PersistResult with skipped taken from the inserted count alone
PersistResultForgetsModified(h) ==
  [inserted |-> h.inserted,
   updated |-> h.modified,
   skipped |-> Max(h.n - h.inserted, 0)]

\* the PersistResult of a handler whose bulkWrite has returned
PersistResult(h) ==
  [inserted |-> h.inserted,
   updated |-> h.modified,
   skipped |-> Max(h.n - h.inserted - h.modified, 0)]

\* a webhook handler enters storeIncomingWhatsAppMessages: the payload is parsed,
\* the operations are built; with none it returns at once
BeginStore(d, payload) ==
  /\ intake[d].pc \in {"idle", "returned", "rejected", "unauthorized"}
  /\ deliveries < MaxWebhooks
  /\ LET now == deliveries + 1
         docs == [i \in 1..Len(payload) |-> toIncomingMessageDocument(payload[i], now)]
         ops == Operations(docs)
     IN /\ intake' = [intake EXCEPT ![d] =
             IF ops = <<>>
             THEN [IdleHandler EXCEPT
                     !.pc = "returned", !.n = Len(payload),
                     !.result = [inserted |-> 0, updated |-> 0,
                                 skipped |-> Len(payload)]]
             ELSE [IdleHandler EXCEPT
                     !.pc = "writing", !.n = Len(payload), !.ops = ops, !.now = now]]
        /\ deliveries' = now
  /\ UNCHANGED <<incoming_messages, properties, runs, hist, trigger>>

Writing(d) == intake[d].pc = "writing" /\ intake[d].ops # <<>>

\* the server runs the filter of the next updateOne: a match is updated
\* ($set last_seen_at), without one the upsert goes on to insert
UpsertMatch(d) ==
  /\ Writing(d)
  /\ intake[d].phase = "match"
  /\ LET doc == Head(intake[d].ops)
         hit == {i \in Ids : incoming_messages[i].message_id = doc.message_id}
     IN IF hit = {}
        THEN /\ intake' = [intake EXCEPT ![d].phase = "insert"]
             /\ UNCHANGED incoming_messages
        ELSE LET i == CHOOSE j \in hit : \A k \in hit : j <= k IN
             /\ incoming_messages' =
                  [incoming_messages EXCEPT ![i].last_seen_at = intake[d].now]
             /\ intake' = [intake EXCEPT
                  ![d].ops = Tail(@),
                  ![d].modified =
                     @ + (IF incoming_messages[i].last_seen_at = intake[d].now
                          THEN 0 ELSE 1)]
  /\ UNCHANGED <<properties, runs, deliveries, hist, trigger>>

\* the insert of the upsert, the index allowing it
UpsertInsert(d) ==
  /\ Writing(d)
  /\ intake[d].phase = "insert"
  /\ UniqueIndexAllows(incoming_messages, Head(intake[d].ops))
  /\ incoming_messages' = Append(incoming_messages, Head(intake[d].ops))
  /\ hist' = Append(hist, NewHist)
  /\ intake' = [intake EXCEPT ![d].ops = Tail(@), ![d].phase = "match",
                              ![d].inserted = @ + 1]
  /\ UNCHANGED <<properties, runs, deliveries, trigger>>

\* the insert meets a document another handler stored meanwhile: duplicate
\* key, and the server runs the upsert again
UpsertRetried(d) ==
  /\ Writing(d)
  /\ intake[d].phase = "insert"
  /\ ~UniqueIndexAllows(incoming_messages, Head(intake[d].ops))
  /\ intake' = [intake EXCEPT ![d].phase = "match"]
  /\ UNCHANGED <<incoming_messages, properties, runs, deliveries, hist, trigger>>

\* the same, the duplicate key reported as a write error of the operation
UpsertRejected(d) ==
  /\ Writing(d)
  /\ intake[d].phase = "insert"
  /\ ~UniqueIndexAllows(incoming_messages, Head(intake[d].ops))
  /\ intake' = [intake EXCEPT ![d].ops = Tail(@), ![d].phase = "match",
                              ![d].writeErrors = @ + 1]
  /\ UNCHANGED <<incoming_messages, properties, runs, deliveries, hist, trigger>>

Written(d) == intake[d].pc = "writing" /\ intake[d].ops = <<>>

\* bulkWrite throws its write errors: storeIncomingWhatsAppMessages rejects
StoreThrows(d) ==
  /\ Written(d)
  /\ intake[d].writeErrors > 0
  /\ intake' = [intake EXCEPT ![d].pc = "rejected"]
  /\ UNCHANGED <<incoming_messages, properties, runs, deliveries, hist, trigger>>

\* bulkWrite returns, something was inserted or modified: triggerWorker() is
\* called and starts call c; the counts are returned
StoreReturnsTriggering(d, c) ==
  /\ Written(d)
  /\ intake[d].writeErrors = 0
  /\ intake[d].inserted > 0 \/ intake[d].modified > 0
  /\ shouldTrigger(trigger)
  /\ FreeSlot(c)
  /\ trigger' = TriggerStarted(trigger, c)
  /\ runs' = IF trigger.remote THEN runs
             ELSE [runs EXCEPT ![c] = StartedRun(DefaultBody)]
  /\ intake' = [intake EXCEPT ![d].pc = "returned",
                              ![d].result = PersistResult(intake[d])]
  /\ UNCHANGED <<incoming_messages, properties, deliveries, hist>>

\* the same, triggerWorker() returning at once: shouldTrigger() is false, or
\* nothing was inserted or modified and it is not called
StoreReturnsQuiet(d) ==
  /\ Written(d)
  /\ intake[d].writeErrors = 0
  /\ \/ ~shouldTrigger(trigger)
     \/ intake[d].inserted = 0 /\ intake[d].modified = 0
  /\ intake' = [intake EXCEPT ![d].pc = "returned",
                              ![d].result = PersistResult(intake[d])]
  /\ UNCHANGED <<incoming_messages, properties, runs, deliveries, hist, trigger>>

HandlerStep(d) ==
  \/ UpsertMatch(d)
  \/ UpsertInsert(d)
  \/ UpsertRetried(d)
  \/ UpsertRejected(d)
  \/ StoreThrows(d)
  \/ \E c \in Runs : StoreReturnsTriggering(d, c)
  \/ StoreReturnsQuiet(d)

\* ------------------------------------------------- POST /webhooks/whatsapp
\* characters of a signature header: hex digits in both cases and one that is
\* no hex digit
SigChars == {"a", "B", "z"}
HexStrings == UNION {[1..n -> SigChars] : n \in 0..MaxSignature}

unhex(c) ==
  CASE c \in {"a", "A"} -> 10
    [] c \in {"b", "B"} -> 11
    [] OTHER -> NULL

\* Buffer.from(string, 'hex'): bytes from pairs of hex digits, ending at the
\* first pair that is not two hex digits; a last single character is left out
RECURSIVE hexDecode(_)
hexDecode(str) ==
  IF Len(str) < 2 THEN <<>>
  ELSE IF unhex(str[1]) = NULL \/ unhex(str[2]) = NULL THEN <<>>
  ELSE <<16 * unhex(str[1]) + unhex(str[2])>> \o hexDecode(SubSeq(str, 3, Len(str)))

\* the bodies of webhook requests: no bytes at all, JSON without an entry
\* array, or the envelope with its messages, with or without fields the
\* parser does not know
RawMessages == [type : {"text", "image"}, id : {IdChars[1], NoId},
                body : Bodies \ {NoText}]
WebhookBodies ==
  [shape : {"empty", "noEntry"}, extra : {FALSE}, messages : {<<>>}]
    \cup [shape : {"envelope"}, extra : BOOLEAN,
          messages : UNION {[1..n -> RawMessages] : n \in 0..MaxEnvelope}]

\* rawBodySaver: req.rawBody is set when the request has bytes
NoRawBody == [shape |-> "undefined", extra |-> FALSE, messages |-> <<>>]
rawBodySaver(body) == IF body.shape = "empty" THEN NoRawBody ELSE body

\* the hex digest of the keyed hash of a raw body, one byte of it: bodies with
\* an identified message have one digest, the others another
HmacDigest(rawBody) ==
  IF \E i \in 1..Len(rawBody.messages) : rawBody.messages[i].id # NoId
  THEN <<"a", "b">> ELSE <<"b", "a">>

NoHeader == [prefix |-> FALSE, hex |-> <<"-">>]
SignatureHeaders ==
  {NoHeader} \cup [prefix : {TRUE}, hex : HexStrings]
             \cup [prefix : {FALSE}, hex : {<<"a", "b">>, <<>>}]

\* verifySignature with its comparison left out
verifySignaturePrefixOnly(rawBody, signatureHeader) ==
  rawBody # NoRawBody /\ signatureHeader # NoHeader /\ signatureHeader.prefix

verifySignature(rawBody, signatureHeader) ==
  IF rawBody = NoRawBody \/ signatureHeader = NoHeader
     \/ (~signatureHeader.prefix /\ signatureHeader.hex = <<>>)
  THEN FALSE
  ELSE IF ~signatureHeader.prefix THEN FALSE
  ELSE LET providedBuffer == hexDecode(signatureHeader.hex)
           digestBuffer == hexDecode(HmacDigest(rawBody))
       IN IF Len(providedBuffer) # Len(digestBuffer) THEN FALSE
          ELSE providedBuffer = digestBuffer

\* parseWebhookPayload: the text messages of the envelope, none without an
\* entry array; unknown fields are not looked at
RECURSIVE TextMessages(_)
TextMessages(messages) ==
  IF messages = <<>> THEN <<>>
  ELSE (IF Head(messages).type = "text"
        THEN <<[id |-> Head(messages).id, body |-> Head(messages).body]>>
        ELSE <<>>) \o TextMessages(Tail(messages))

parseWebhookPayload(body) ==
  IF body.shape # "envelope" THEN <<>> ELSE TextMessages(body.messages)

WebhookRequests == [body : WebhookBodies, signature : SignatureHeaders]

\* the route: 401 unless verifySignature() is true, else the body goes to
\* storeIncomingWhatsAppMessages
PostWhatsapp(d, req) ==
  IF verifySignature(rawBodySaver(req.body), req.signature)
  THEN BeginStore(d, parseWebhookPayload(req.body))
  ELSE /\ intake[d].pc \in {"idle", "returned", "rejected", "unauthorized"}
       /\ intake' = [intake EXCEPT ![d] = [IdleHandler EXCEPT !.pc = "unauthorized"]]
       /\ UNCHANGED <<incoming_messages, properties, runs, deliveries, hist, trigger>>

\* the status of the response a handler has sent, 0 while it has sent none
ResponseStatus(h) ==
  CASE h.pc = "unauthorized" -> 401
    [] h.pc = "returned" -> 200
    [] h.pc = "rejected" -> 500
    [] OTHER -> 0

\* the error storeIncomingWhatsAppMessages has rejected with
StoreError(h) == IF h.pc = "rejected" THEN "BulkWriteError" ELSE NoError

\* ----------------------------------------------------------- specification
Init ==
  /\ incoming_messages = <<>>
  /\ properties = <<>>
  /\ runs = [r \in Runs |-> IdleRun]
  /\ deliveries = 0
  /\ hist = <<>>
  /\ trigger = IdleTrigger
  /\ intake = [d \in Handlers |-> IdleHandler]

\* every step of a started run but its return, the model answering with one
\* of `results`
RunWork(r, results) ==
  \/ ClaimOne(r)
  \/ ClaimNone(r)
  \/ SkipNoText(r)
  \/ ExtractEmpty(r)
  \/ \E listings \in results : ExtractListings(r, listings)
  \/ UpsertNext(r)
  \/ MarkProcessed(r)
  \/ ProcessingThrows(r)
  \/ StatusWriteThrows(r)

RunStepOver(r, results) ==
  \/ RunWork(r, results)
  \/ Finish(r)

RunStep(r) == RunStepOver(r, CoreListings)

RunFails(r) ==
  \/ StoreErrorRejects(r)
  \/ Crash(r)

\* The pipeline for one source message: deliveries and redeliveries, worker
\* runs started by the trigger (no body) or the route, the clock.
Next ==
  \/ \E payload \in Payloads(MessageIds, MaxPayload) :
       storeIncomingWhatsAppMessages(payload)
  \/ \E r \in Runs, body \in RouteBodies : StartRun(r, body)
  \/ \E r \in Runs : RunStep(r)
  \/ \E r \in Runs : RunFails(r)
  \/ Tick

Spec == Init /\ [][Next]_vars

\* The same, every run with the default options (MAX_ATTEMPTS = 3).
NextDefaults ==
  \/ \E payload \in Payloads(MessageIds, MaxPayload) :
       storeIncomingWhatsAppMessages(payload)
  \/ \E r \in Runs : StartRun(r, DefaultBody)
  \/ \E r \in Runs : RunStep(r)
  \/ \E r \in Runs : RunFails(r)
  \/ Tick

SpecDefaults == Init /\ [][NextDefaults]_vars

\* Two calls racing over the same pending messages: one webhook has stored
\* NBatchIds messages, each slot is called once, the clock does not move.
RacePayloads ==
  {p \in [1..NBatchIds -> [id : BatchIds, body : Bodies]] :
     \A i \in 1..NBatchIds : p[i].id = IdChars[i]}

InitRace ==
  /\ \E p \in RacePayloads :
       incoming_messages =
         BulkWrite(<<>>, [i \in 1..Len(p) |-> toIncomingMessageDocument(p[i], 1)], 1)
  /\ properties = <<>>
  /\ runs = [r \in Runs |-> IdleRun]
  /\ deliveries = 1
  /\ hist = [i \in 1..NBatchIds |-> NewHist]
  /\ trigger = IdleTrigger
  /\ intake = [d \in Handlers |-> IdleHandler]

StartOnce(r) == runs[r].pc = "idle" /\ StartRun(r, DefaultBody)

NextRace ==
  \/ \E r \in Runs : StartOnce(r)
  \/ \E r \in Runs : RunStep(r)
  \/ \E r \in Runs : RunFails(r)

SpecRace == InitRace /\ [][NextRace]_vars

\* One worker at a time over several messages; the clock does not move.
NextBatch ==
  \/ \E payload \in Payloads(BatchIds, NBatchIds) :
       storeIncomingWhatsAppMessages(payload)
  \/ \E body \in RouteBodies : StartRun(1, body)
  \/ RunStep(1)
  \/ RunFails(1)

SpecBatch == Init /\ [][NextBatch]_vars

\* Webhook deliveries handled concurrently, step by step; the runs the trigger
\* starts do not get to act.
NextIntake ==
  \/ \E d \in Handlers, payload \in Payloads(BatchIds, NBatchIds) :
       BeginStore(d, payload)
  \/ \E d \in Handlers : HandlerStep(d)

SpecIntake == Init /\ [][NextIntake]_vars

\* The worker route: one run after another started with any body; a run ends
\* when its first collection call throws.
NextRoute ==
  \/ \E body \in JsonBodies : StartRun(1, body)
  \/ StoreErrorRejects(1)

SpecRoute == Init /\ [][NextRoute]_vars

\* Long messages: one stored message whose text, between spaces, has a length
\* around MAX_MESSAGE_LENGTH, and one run over it at a time.
Spaces(n) == [i \in 1..n |-> " "]
LongTexts ==
  {Spaces(l) \o [i \in 1..n |-> "x"] \o Spaces(t) :
     l \in 0..MaxPad, t \in 0..MaxPad,
     n \in {0, 1, MAX_MESSAGE_LENGTH - 1, MAX_MESSAGE_LENGTH,
            MAX_MESSAGE_LENGTH + 1, MAX_MESSAGE_LENGTH + MaxPad}}

InitLongText ==
  /\ \E text \in LongTexts :
       incoming_messages =
         BulkWrite(<<>>, <<toIncomingMessageDocument([id |-> IdChars[1], body |-> text], 1)>>, 1)
  /\ properties = <<>>
  /\ runs = [r \in Runs |-> IdleRun]
  /\ deliveries = 1
  /\ hist = <<NewHist>>
  /\ trigger = IdleTrigger
  /\ intake = [d \in Handlers |-> IdleHandler]

NextLongText ==
  \/ StartRun(1, DefaultBody)
  \/ RunStepOver(1, CoreListings)

SpecLongText == InitLongText /\ [][NextLongText]_vars

\* The webhook route: requests with any body and any signature header, handled
\* concurrently.
NextWebhook ==
  \/ \E d \in Handlers, req \in WebhookRequests : PostWhatsapp(d, req)
  \/ \E d \in Handlers : HandlerStep(d)

SpecWebhook == Init /\ [][NextWebhook]_vars

\* Intake, trigger and the runs the trigger starts, in one process: the
\* deployment has a worker URL or not, every delivery carries the same source
\* message, handlers and runs interleave and the trigger clock runs.
TriggerPayloads == Payloads({IdChars[1]}, 1)

InitTrigger ==
  /\ incoming_messages = <<>>
  /\ properties = <<>>
  /\ runs = [r \in Runs |-> IdleRun]
  /\ deliveries = 0
  /\ hist = <<>>
  /\ \E remote \in BOOLEAN : trigger = [IdleTrigger EXCEPT !.remote = remote]
  /\ intake = [d \in Handlers |-> IdleHandler]

NextTrigger ==
  \/ \E d \in Handlers, payload \in TriggerPayloads : BeginStore(d, payload)
  \/ \E d \in Handlers : HandlerStep(d)
  \/ \E c \in Runs : RunWork(c, CoreListings)
  \/ \E c \in Runs : TriggerRunReturns(c)
  \/ \E c \in Runs : TriggerRunThrows(c)
  \/ \E c \in Runs, response \in RemoteResponses : RemoteSettles(c, response)
  \/ TriggerTick

SpecTrigger == InitTrigger /\ [][NextTrigger]_vars

\* Extraction in full: stored messages, the first with any text, the others
\* with text that has content, the model answering with any listings; one
\* worker at a time, the clock does not move.
TextPayloads ==
  {p \in [1..NBatchIds -> [id : BatchIds, body : TextBodies]] :
     \A i \in 1..NBatchIds :
       /\ p[i].id = IdChars[i]
       /\ i > 1 => p[i].body \in Bodies \ {NoText}}

InitListings ==
  /\ \E p \in TextPayloads :
       incoming_messages =
         BulkWrite(<<>>, [i \in 1..Len(p) |-> toIncomingMessageDocument(p[i], 1)], 1)
  /\ properties = <<>>
  /\ runs = [r \in Runs |-> IdleRun]
  /\ deliveries = 1
  /\ hist = [i \in 1..NBatchIds |-> NewHist]
  /\ trigger = IdleTrigger
  /\ intake = [d \in Handlers |-> IdleHandler]

NextListings ==
  \/ StartRun(1, DefaultBody)
  \/ RunStepOver(1, DraftListings)
  \/ RunFails(1)

SpecListings == InitListings /\ [][NextListings]_vars

\* The worker over what the parser makes of any element of the listings array
\* (an element that is null makes normalizeListing throw: the extraction fails
\* and nothing is written).
SchemaListings == {<<normalizeListing(listing)>> : listing \in RawListings}

InitSchema ==
  /\ \E text \in Bodies :
       incoming_messages =
         BulkWrite(<<>>, <<toIncomingMessageDocument([id |-> IdChars[1], body |-> text], 1)>>, 1)
  /\ properties = <<>>
  /\ runs = [r \in Runs |-> IdleRun]
  /\ deliveries = 1
  /\ hist = <<NewHist>>
  /\ trigger = IdleTrigger
  /\ intake = [d \in Handlers |-> IdleHandler]

NextSchema ==
  \/ StartRun(1, DefaultBody)
  \/ RunStepOver(1, SchemaListings)

SpecSchema == InitSchema /\ [][NextSchema]_vars

\* The same over listings that give one numeric member a value of any kind.
NumberListings ==
  {<<normalizeListing(NumberListing(m, value))>> : m \in NumericMembers, value \in JsonLeaves}

NextNumbers ==
  \/ StartRun(1, DefaultBody)
  \/ RunStepOver(1, NumberListings)

SpecNumbers == InitSchema /\ [][NextNumbers]_vars

\* Fair scheduling: the clock advances, runs keep being invoked, a run that
\* is started again and again gets to take its steps, and the claim call does
\* not fail every time it is made, nor does every run die before it returns;
\* a crash or a store error is never forced.
NextFair ==
  \/ \E payload \in Payloads(MessageIds, MaxPayload) :
       storeIncomingWhatsAppMessages(payload)
  \/ StartRun(1, DefaultBody)
  \/ RunStep(1)
  \/ RunFails(1)
  \/ Tick

FairSpec ==
  /\ Init /\ [][NextFair]_vars
  /\ WF_vars(Tick)
  /\ WF_vars(StartRun(1, DefaultBody))
  /\ SF_vars(RunStep(1))
  /\ SF_vars(ClaimOne(1))
  /\ SF_vars(Finish(1))

\* ------------------------------------------------------------ vocabulary
Alive(r) == runs[r].pc \in {"claiming", "processing"}

\* run r has claimed message i and has not yet written (or given up) its outcome
Holds(r, i) ==
  /\ Alive(r)
  /\ \E j \in 1..Len(runs[r].claimed) :
       /\ runs[r].claimed[j]._id = i
       /\ runs[r].pc = "claiming" \/ j >= runs[r].i

Holders(i) == {r \in Runs : Holds(r, i)}

\* this step is run r's findOneAndUpdate claiming message i
ClaimStep(r, i) ==
  /\ Len(runs'[r].claimed) = Len(runs[r].claimed) + 1
  /\ runs'[r].claimed[Len(runs'[r].claimed)]._id = i

\* this step is run r's loop recording an outcome for message i
OutcomeStep(r, i) ==
  /\ runs[r].pc = "processing"
  /\ runs'[r].pc \in {"processing", "counting"}
  /\ Len(runs'[r].outcomes) = Len(runs[r].outcomes) + 1
  /\ Cur(r)._id = i

LastOutcome(r) == runs'[r].outcomes[Len(runs'[r].outcomes)]

\* ---------------------------------------------------------------- C1
\* C1 as stated: of two concurrent calls over the same pending messages (no
\* claim timeout elapsing), every message is claimed by at most one call and
\* its attempts counter is incremented exactly once.
C1_Original ==
  \A i \in Ids : hist[i].claims <= 1 /\ incoming_messages[i].attempts <= 1

\* C1 amended: at any time at most one of the two calls holds a message; a
\* call claims only a pending message, and one that was claimed before only
\* after a retryable failure returned it to pending; every claim increments
\* attempts by exactly one, so attempts is the number of claims; a call counts
\* a message as processed only while it owns it, and the message is then
\* processed, which is never claimed: it is counted as processed at most once.
C1_ClaimExclusivity ==
  [][/\ \A i \in Ids' : /\ Cardinality(Holders(i)') <= 1
                        /\ incoming_messages'[i].attempts = hist'[i].claims
     /\ \A r \in Runs, i \in Ids :
          /\ ClaimStep(r, i) =>
               /\ incoming_messages[i].status = "pending"
               /\ incoming_messages'[i].attempts = incoming_messages[i].attempts + 1
               /\ hist[i].claims >= 1 =>
                    hist[i].fails >= 1 /\ incoming_messages[i].last_error # NoError
          /\ (OutcomeStep(r, i) /\ LastOutcome(r) # "failed") =>
               /\ incoming_messages[i].status = "processing"
               /\ incoming_messages[i].worker_batch_id = BatchId(r)
               /\ incoming_messages'[i].status = "processed"]_vars

\* one call holds a message that the other call, still running, claimed and
\* failed before; another message has been processed
C1_Witness ==
  /\ \A r \in Runs : runs[r].pc \in {"claiming", "processing", "counting"}
  /\ \E i \in Ids : /\ hist[i].claims = 2
                    /\ Cardinality(Holders(i)) = 1
                    /\ \E j \in Ids : j # i /\ incoming_messages[j].status = "processed"

\* ---------------------------------------------------------------- C2
\* C2: at no time do two worker runs both hold the same message as claimed
\* and not yet finished, also when a run is slow but alive past the timeout.
C2_NoDoubleProcessing == \A i \in Ids : Cardinality(Holders(i)) <= 1

\* ---------------------------------------------------------------- C3
\* C3: the only status transitions are pending->processing, processing->
\* processed, processing->pending, processing->failed (and processing->
\* processing on reclaim); processed and failed never change again.
ValidTransition(a, b) ==
  \/ a = b
  \/ a = "pending" /\ b = "processing"
  \/ a = "processing" /\ b \in {"processed", "pending", "failed"}

C3_StateMachine ==
  [][\A i \in Ids : ValidTransition(incoming_messages[i].status,
                                    incoming_messages'[i].status)]_vars

\* ---------------------------------------------------------------- C4
\* C4: a message whose processing failed on each of maxAttempts claims (and
\* that no run still holds) has status failed and attempts = maxAttempts,
\* and a failed message is never claimed again.
C4_RetryCap ==
  [][\A i \in Ids :
       /\ (/\ hist'[i].claims = MAX_ATTEMPTS
           /\ hist'[i].fails = MAX_ATTEMPTS
           /\ Holders(i)' = {})
          => /\ incoming_messages'[i].status = "failed"
             /\ incoming_messages'[i].attempts = MAX_ATTEMPTS
       /\ incoming_messages[i].status = "failed"
          => \A r \in Runs : ~ClaimStep(r, i)]_vars

\* ---------------------------------------------------------------- C5
\* C5 as stated: a processing message is claimed only if its heartbeat_at is
\* older than claimTimeout at the claiming run's start and its attempts is
\* below maxAttempts; a message claimed less than claimTimeout ago is never
\* claimed by another run.
C5_Original ==
  [][\A r \in Runs, i \in Ids :
       ClaimStep(r, i) =>
         /\ incoming_messages[i].status = "processing" =>
              /\ incoming_messages[i].heartbeat_at > runs[r].now + CLAIM_TIMEOUT_MS
              /\ incoming_messages[i].attempts < runs[r].maxAttempts
         /\ hist[i].sinceClaim = NULL \/ hist[i].sinceClaim >= CLAIM_TIMEOUT_MS]_vars

\* C5 amended: a processing message is claimed only if its heartbeat_at is
\* older than claimTimeout at the claiming run's start and its attempts is
\* below maxAttempts; a message claimed less than claimTimeout ago is claimed
\* by another run only when a retryable failure has returned it to pending
\* (or, still processing, when its recorded heartbeat_at is that old).
C5_ReclaimRule ==
  [][\A r \in Runs, i \in Ids :
       ClaimStep(r, i) =>
         /\ incoming_messages[i].attempts < runs[r].maxAttempts
         /\ incoming_messages[i].status \in {"pending", "processing"}
         /\ incoming_messages[i].status = "processing" =>
              /\ incoming_messages[i].heartbeat_at # NULL
              /\ incoming_messages[i].heartbeat_at > runs[r].now + CLAIM_TIMEOUT_MS
         /\ (hist[i].sinceClaim # NULL /\ hist[i].sinceClaim < CLAIM_TIMEOUT_MS) =>
              \/ incoming_messages[i].status = "pending" /\ hist[i].fails >= 1
              \/ /\ incoming_messages[i].status = "processing"
                 /\ incoming_messages[i].heartbeat_at > runs[r].now + CLAIM_TIMEOUT_MS
       ]_vars

\* a run holds a message it took over from a claim whose heartbeat had expired
C5_Witness ==
  \E i \in Ids, r \in Runs :
    /\ hist[i].reclaimed
    /\ Holds(r, i)
    /\ incoming_messages[i].status = "processing"
    /\ incoming_messages[i].worker_batch_id = BatchId(r)
    /\ incoming_messages[i].attempts = 2

\* ---------------------------------------------------------------- C7
\* C7: whenever a processing failure returns a message to pending, its stored
\* attempts is below maxAttempts, claimed_at and heartbeat_at are null, the
\* error text is in last_error, and the next claim can take it at once (it is
\* pending with attempts below maxAttempts, which the claim filter accepts
\* whatever the time).
C7_RetryableFailure ==
  [][\A r \in Runs, i \in Ids :
       (/\ OutcomeStep(r, i)
        /\ hist'[i].fails > hist[i].fails
        /\ incoming_messages'[i].status = "pending")
       => /\ incoming_messages'[i].attempts < runs[r].maxAttempts
          /\ incoming_messages'[i].claimed_at = NULL
          /\ incoming_messages'[i].heartbeat_at = NULL
          /\ incoming_messages'[i].last_error # NoError]_vars

\* ---------------------------------------------------------------- C8
\* C8: with maxAttempts = 3, attempts is the number of times the message was
\* claimed; after failures in two successive runs the message is not failed
\* but pending with attempts = 2, so a third run claims it; when that run
\* succeeds the message is processed with attempts = 3, the mark leaving
\* attempts as it was.
C8_ThirdRunSucceeds ==
  [][\A i \in Ids' :
       /\ incoming_messages'[i].attempts = hist'[i].claims
       /\ (~hist'[i].reclaimed /\ hist'[i].fails = MAX_ATTEMPTS - 1) =>
            /\ incoming_messages'[i].status # "failed"
            /\ incoming_messages'[i].status = "pending" =>
                 incoming_messages'[i].attempts = MAX_ATTEMPTS - 1
            /\ incoming_messages'[i].status \in {"processing", "processed"} =>
                 incoming_messages'[i].attempts = MAX_ATTEMPTS
       /\ (/\ i \in Ids
           /\ incoming_messages[i].status # "processed"
           /\ incoming_messages'[i].status = "processed") =>
            incoming_messages'[i].attempts = incoming_messages[i].attempts]_vars

\* two runs failed, the third succeeded
C8_Witness ==
  \E i \in Ids :
    /\ ~hist[i].reclaimed
    /\ hist[i].fails = 2
    /\ incoming_messages[i].status = "processed"
    /\ incoming_messages[i].attempts = 3

\* ---------------------------------------------------------------- C6
\* C6: under fair scheduling every ingested message eventually has status
\* processed or failed, also when a run crashes after claiming it.
C6_SelfHealing ==
  \A i \in 1..NMessageIds :
    (Len(incoming_messages) >= i)
      ~> (/\ Len(incoming_messages) >= i
          /\ incoming_messages[i].status \in {"processed", "failed"})

\* ---------------------------------------------------------------- C9
\* C9: an exception while one claimed message is processed does not end the
\* batch: the loop records the failure and goes on to the next claimed message
\* in claim order, the step touches no other message, the messages still to
\* come are as they were claimed, and the run reaches its final count with an
\* outcome for every claimed message.
C9_FailureContainment ==
  [][\A r \in Runs :
       (/\ runs[r].pc = "processing"
        /\ runs'[r] # runs[r]
        /\ runs'[r].pc # "crashed")
       => /\ runs'[r].pc \in {"processing", "counting"}
          /\ runs'[r].claimed = runs[r].claimed
          /\ runs'[r].i \in {runs[r].i, runs[r].i + 1}
          /\ Len(runs'[r].outcomes) = runs'[r].i - 1
          /\ runs'[r].pc = "counting" <=> runs'[r].i > Len(runs[r].claimed)
          /\ \A j \in Ids : j # Cur(r)._id => incoming_messages'[j] = incoming_messages[j]
          /\ \A j \in 1..Len(runs[r].claimed) :
               j >= runs'[r].i =>
                 /\ incoming_messages'[runs[r].claimed[j]._id].status = "processing"
                 /\ incoming_messages'[runs[r].claimed[j]._id].attempts
                      = runs[r].claimed[j].attempts]_vars

\* the first claimed message failed, the second was processed all the same
C9_Witness ==
  \E r \in Runs :
    /\ runs[r].pc = "counting"
    /\ Len(runs[r].claimed) = 2
    /\ runs[r].outcomes = <<"failed", "processed">>
    /\ incoming_messages[runs[r].claimed[2]._id].status = "processed"

UpsertStep(r) ==
  /\ runs[r].pc = "processing"
  /\ runs'[r].pc = "processing"
  /\ runs'[r].k = runs[r].k + 1

UpsertId(r) ==
  buildListingId(Cur(r), runs[r].k, runs[r].drafts[runs[r].k + 1].listing_id)

\* C12: an updateOne of upsertListings on an id that is stored replaces the
\* payload in place, creates no record and is counted as updated; it touches
\* no other record; and when upsertListings has written the listings of a
\* message, running it again for the same message with the same listings
\* resolves to the same ids and leaves the collection as it is.
C12_UpsertIdempotence ==
  [][\A r \in Runs :
       UpsertStep(r) =>
         /\ DOMAIN properties' = DOMAIN properties \cup {UpsertId(r)}
         /\ properties'[UpsertId(r)].payload =
              normalizeListingDocument(Cur(r), runs[r].k, runs[r].drafts[runs[r].k + 1])
         /\ \A id \in DOMAIN properties :
              id # UpsertId(r) => properties'[id] = properties[id]
         /\ UpsertId(r) \in DOMAIN properties =>
              /\ runs'[r].created = runs[r].created
              /\ runs'[r].updated = runs[r].updated + 1
         /\ runs'[r].k = Len(runs[r].drafts) =>
              /\ ListingIdsOf(Cur(r), runs[r].drafts) \subseteq DOMAIN properties'
              /\ upsertListings(properties', Cur(r), runs[r].drafts) = properties'
       ]_vars

\* a retried message whose two listings were both stored by the earlier attempt
C12_Witness ==
  \E r \in Runs :
    /\ runs[r].pc = "processing"
    /\ Len(runs[r].drafts) = 2
    /\ runs[r].k = 2
    /\ runs[r].created = 0
    /\ runs[r].updated = 2
    /\ hist[Cur(r)._id].claims = 2
    /\ Cardinality(DOMAIN properties) = 2

\* --------------------------------------------------------------- C13
\* C13: the _id an updateOne of upsertListings uses depends on the message
\* and the position of the listing only: it is the _id any other candidate
\* listing at that position would get.
C13_ListingIdentity ==
  [][\A r \in Runs :
       UpsertStep(r) =>
         \A d \in Drafts :
           buildListingId(Cur(r), runs[r].k, d.listing_id) = UpsertId(r)]_vars

\* --------------------------------------------------------------- C14
\* the listings that carry the reference of message i
ListingsFrom(coll, i) ==
  {id \in DOMAIN coll :
     \E j \in 1..Len(coll[id].linked_message_ids) : coll[id].linked_message_ids[j] = i}

\* C14: when a run marks a message processed after writing its listings, the
\* listings in properties that come from that message are exactly the
\* listings of this extraction, also when earlier attempts wrote listings.
C14_NoOrphans ==
  [][\A r \in Runs, i \in Ids :
       (OutcomeStep(r, i) /\ LastOutcome(r) = "processed") =>
         ListingsFrom(properties', i) = ListingIdsOf(Cur(r), runs[r].drafts)]_vars

\* --------------------------------------------------------------- C15
\* C15: after an updateOne of upsertListings the listing's linked_message_ids
\* holds the reference of the message exactly once, every reference it held
\* before is still there, in place, and no array of the collection holds a
\* reference twice.
C15_ProvenanceSet ==
  [][\A r \in Runs :
       UpsertStep(r) =>
         LET after == properties'[UpsertId(r)].linked_message_ids IN
         /\ Cardinality({j \in 1..Len(after) : after[j] = Cur(r)._id}) = 1
         /\ UpsertId(r) \in DOMAIN properties =>
              LET before == properties[UpsertId(r)].linked_message_ids IN
              /\ Len(before) <= Len(after)
              /\ SubSeq(after, 1, Len(before)) = before
         /\ \A id \in DOMAIN properties' :
              \A j, k \in 1..Len(properties'[id].linked_message_ids) :
                properties'[id].linked_message_ids[j]
                  = properties'[id].linked_message_ids[k] => j = k]_vars

\* a message writes again a listing that it wrote first and that another
\* message has written since
C15_Witness ==
  \E r \in Runs, id \in DOMAIN properties :
    /\ runs[r].pc = "processing"
    /\ runs[r].k = 1
    /\ runs[r].updated = 1
    /\ id = buildListingId(Cur(r), 0, runs[r].drafts[1].listing_id)
    /\ Len(properties[id].linked_message_ids) = 2
    /\ properties[id].linked_message_ids[1] = Cur(r)._id
    /\ hist[Cur(r)._id].claims = 2

\* --------------------------------------------------------------- C17
\* text with no character but spaces
Unusable(text) == \A j \in 1..Len(text) : text[j] = " "

\* C17: for a claimed message whose text is empty or only spaces the run
\* sends no request to the extraction model and writes no listing; the step
\* that handles it marks it processed and counts it as skipped (or, when the
\* status write itself fails, counts it as failed).
C17_NoTextSkipped ==
  [][\A r \in Runs :
       (/\ runs[r].pc = "processing"
        /\ Unusable(Cur(r).text)
        /\ runs'[r] # runs[r]
        /\ runs'[r].pc # "crashed")
       => /\ OutcomeStep(r, Cur(r)._id)
          /\ runs'[r].requests = runs[r].requests
          /\ properties' = properties
          /\ runs'[r].listingsCreated = runs[r].listingsCreated
          /\ runs'[r].listingsUpdated = runs[r].listingsUpdated
          /\ LastOutcome(r) \in {"skipped", "failed"}
          /\ LastOutcome(r) = "skipped" =>
               /\ incoming_messages'[Cur(r)._id].status = "processed"
               /\ incoming_messages'[Cur(r)._id].attempts = Cur(r).attempts
          /\ LastOutcome(r) = "failed" =>
               incoming_messages'[Cur(r)._id].status # "processed"]_vars

\* a message of spaces only was skipped without a request, the next message
\* went to the model
C17_Witness ==
  \E r \in Runs :
    /\ runs[r].pc = "counting"
    /\ Len(runs[r].claimed) = 2
    /\ runs[r].claimed[1].text = Blank
    /\ runs[r].outcomes = <<"skipped", "processed">>
    /\ runs[r].requests = 1
    /\ incoming_messages[runs[r].claimed[1]._id].status = "processed"

\* --------------------------------------------------------------- C16
\* no other invocation has been made
Solo(r) == \A q \in Runs : q # r => runs[q].pc = "idle"

\* the documents the filter of run r matches in the next state
EligibleAfter(r) ==
  {i \in Ids' : buildClaimFilter(incoming_messages'[i], runs[r].now,
                                 runs[r].maxAttempts, CLAIM_TIMEOUT_MS)}

\* C16: a run claims at most batchSize messages and no message twice; absent
\* concurrent runs each claim takes an eligible message with the smallest
\* first_seen_at, the claimed messages are in ascending first_seen_at order,
\* and the claim loop ends only with batchSize messages claimed or with no
\* eligible message left.
C16_BatchBoundAndOrder ==
  [][\A r \in Runs :
       /\ Len(runs'[r].claimed) <= runs'[r].batchSize
       /\ \A j, k \in 1..Len(runs'[r].claimed) :
            runs'[r].claimed[j]._id = runs'[r].claimed[k]._id => j = k
       /\ Solo(r) =>
            /\ \A i \in Ids :
                 ClaimStep(r, i) =>
                   /\ i \in Eligible(r)
                   /\ \A j \in Eligible(r) :
                        incoming_messages[i].first_seen_at
                          <= incoming_messages[j].first_seen_at
                   /\ \A j \in 1..Len(runs[r].claimed) :
                        incoming_messages[runs[r].claimed[j]._id].first_seen_at
                          <= incoming_messages[i].first_seen_at
            /\ (runs[r].pc = "claiming" /\ runs'[r].pc \in {"processing", "counting"}) =>
                 \/ Len(runs'[r].claimed) = runs[r].batchSize
                 \/ EligibleAfter(r) = {}]_vars

\* C11: in every reachable state no two records of incoming_messages share
\* their dedupe_key, also when deliveries with the same source message are
\* handled at once.
C11_DedupeKeyUnique ==
  \A i, j \in Ids :
    i # j => incoming_messages[i].dedupe_key # incoming_messages[j].dedupe_key

\* two handlers at once on one source message: one found no match and is about
\* to insert, the other has stored the message meanwhile
C11_Witness ==
  \E d, e \in Handlers :
    /\ d # e
    /\ Writing(d) /\ intake[d].phase = "insert"
    /\ intake[e].inserted > 0
    /\ \E i \in Ids :
         incoming_messages[i].dedupe_key = Head(intake[d].ops).dedupe_key

\* a triggerWorker call passes shouldTrigger() and starts call c
CallStarts(c) == trigger.calls[c].pc = "idle" /\ trigger'.calls[c].pc # "idle"

\* a triggerWorker call is in flight and the window since it started is open
InWindow(c) ==
  trigger.calls[c].pc # "idle" /\ trigger.calls[c].age < CONCURRENCY_WINDOW_MS

\* a handler calls triggerWorker(): something was inserted or modified
CallsTrigger(d) ==
  /\ Written(d) /\ intake'[d].pc = "returned"
  /\ intake[d].inserted > 0 \/ intake[d].modified > 0

\* C18: while a triggerWorker call is in flight and less than the window has
\* passed since it started, a further triggerWorker call starts neither a run
\* nor a remote request; and a call is started only in the step of the
\* triggerWorker call it belongs to, never later for a dropped one.
C18_TriggerDebounce ==
  [][\A c \in Runs :
       CallStarts(c) =>
         /\ \A e \in Runs : ~InWindow(e)
         /\ \E d \in Handlers : CallsTrigger(d)]_vars

C20_BestEffortTrigger ==
  [][/\ ~trigger'.rejected
     /\ \A d \in Handlers :
          (Written(d) /\ intake'[d].pc = "returned") =>
            intake'[d].result = PersistResult(intake[d])
     /\ (\E c \in Runs : trigger.calls[c].pc # "idle" /\ trigger'.calls[c].pc = "idle")
          => intake' = intake]_vars

\* a trigger call has settled after the run or the remote request threw, and
\* the handler that made it has returned its counts
C20_Witness ==
  /\ trigger.last = "threw"
  /\ ~trigger.rejected
  /\ \E d \in Handlers :
       /\ intake[d].pc = "returned"
       /\ intake[d].result.inserted = 1

\* the signature header is the prefix followed by the hex digest of the raw
\* body, in either case of the digits
SignatureIsHmac(req) ==
  /\ req.signature # NoHeader /\ req.signature.prefix
  /\ LET hex == req.signature.hex
         digest == HmacDigest(req.body)
     IN /\ Len(hex) = Len(digest)
        /\ \A i \in 1..Len(hex) :
             unhex(hex[i]) # NULL /\ unhex(hex[i]) = unhex(digest[i])

\* the request has bytes and the bytes decoded from the hex digits after the
\* prefix, up to the first pair that is not hex, are those of the digest
SignatureDecodesToHmac(req) ==
  /\ req.body.shape # "empty"
  /\ req.signature # NoHeader /\ req.signature.prefix
  /\ hexDecode(req.signature.hex) = hexDecode(HmacDigest(req.body))

\* the handler is answered 401 and neither the collection nor the trigger moves
Refused(d) ==
  /\ ResponseStatus(intake'[d]) = 401
  /\ incoming_messages' = incoming_messages
  /\ trigger' = trigger /\ runs' = runs

\* handler d enters storeIncomingWhatsAppMessages
EntersStore(d) ==
  /\ intake[d].pc # "writing"
  /\ intake'[d] # intake[d]
  /\ intake'[d].pc \in {"writing", "returned"}

C22_IntakeValidation ==
  [][\A d \in Handlers :
       (intake'[d] # intake[d] /\ ~Refused(d)) =>
         \A req \in WebhookRequests :
           PostWhatsapp(d, req) =>
             /\ req.body.shape # "envelope" =>
                  /\ StoreError(intake'[d]) = "ValidationError"
                  /\ incoming_messages' = incoming_messages
             /\ req.body.shape = "envelope" =>
                  PostWhatsapp(d, [req EXCEPT !.body.extra = FALSE])]_vars

\* C23: every text message of a payload gets a dedupe_key and an upsert, also
\* one that carries no id: the operations built are as many as the text
\* messages, each with a key.
C23_EveryTextMessageUpserted ==
  [][\A d \in Handlers :
       (intake[d].pc # "writing" /\ intake'[d] # intake[d]) =>
         \A payload \in Payloads(BatchIds, NBatchIds) :
           BeginStore(d, payload) =>
             /\ Len(intake'[d].ops) = Len(payload)
             /\ \A k \in 1..Len(intake'[d].ops) : intake'[d].ops[k].dedupe_key # NoId]_vars

\* C24: the options a run started by the route works with satisfy
\* 1 <= batchSize <= 20 and 1 <= maxAttempts <= 10 for every number in the
\* body, and are the defaults 5 and 3 for a field that is absent or no number.
C24_RouteClamping ==
  [][\A r \in Runs :
       (runs'[r] # runs[r] /\ runs'[r].pc = "claiming") =>
         /\ runs'[r].batchSize \in 1..20
         /\ runs'[r].maxAttempts \in 1..10
         /\ \A body \in JsonBodies :
              StartRun(r, body) =>
                /\ body.batchSize.type # "number" =>
                     runs'[r].batchSize = DEFAULT_BATCH_SIZE
                /\ body.maxAttempts.type # "number" =>
                     runs'[r].maxAttempts = MAX_ATTEMPTS
                /\ (body.batchSize.type = "number" /\ body.batchSize.value \in 1..20) =>
                     runs'[r].batchSize = body.batchSize.value
                /\ (body.maxAttempts.type = "number" /\ body.maxAttempts.value \in 1..10) =>
                     runs'[r].maxAttempts = body.maxAttempts.value]_vars

\* a run works with both numbers at the ends of their ranges
C24_Witness ==
  \E r \in Runs :
    runs[r].pc = "claiming" /\ runs[r].batchSize = 20 /\ runs[r].maxAttempts = 1

\* C25: a store error while claiming aborts the run: the run rejects having
\* made no extraction request and no listing upsert, also for the messages it
\* had claimed before the error; a rejected run takes no further step, and a
\* run goes from claiming to processing only by a claim call that returned.
C25_ClaimErrorAborts ==
  [][\A r \in Runs :
       /\ (runs[r].pc = "claiming" /\ runs'[r].pc \notin {"claiming", "processing", "counting", "crashed"}) =>
            /\ runs'[r].pc = "rejected"
            /\ runs[r].requests = 0
            /\ runs[r].created = 0 /\ runs[r].updated = 0
            /\ properties' = properties
            /\ incoming_messages' = incoming_messages
       /\ runs[r].pc = "rejected" => runs'[r].pc \in {"rejected", "claiming"}
       /\ (runs[r].pc = "claiming" /\ runs'[r].pc \in {"processing", "counting"}) =>
            ClaimOne(r) \/ ClaimNone(r)]_vars

\* a run was rejected in its claim loop: the message it had claimed is left
\* processing, another is still pending, and no listing exists
C25_Witness ==
  \E r \in Runs, i, j \in Ids :
    /\ runs[r].pc = "rejected"
    /\ incoming_messages[i].status = "processing"
    /\ incoming_messages[i].worker_batch_id = BatchId(r)
    /\ hist[i].claims = 1 /\ hist[i].fails = 0
    /\ incoming_messages[j].status = "pending" /\ hist[j].claims = 0
    /\ properties = <<>>

\* C26: an extraction that fails (empty or non-JSON content) throws after
\* exactly one model request: the requests of a run grow by one at a time, only
\* for a claimed message whose extraction has not returned, and that message's
\* extraction is then over; so the requests a run has made never exceed the
\* claimed messages it has taken up.
C26_OneRequestPerClaim ==
  [][\A r \in Runs :
       /\ runs'[r].requests > runs[r].requests =>
            /\ runs'[r].requests = runs[r].requests + 1
            /\ AtExtract(r)
            /\ runs'[r].drafts # <<>> \/ Len(runs'[r].outcomes) = Len(runs[r].outcomes) + 1
       /\ (runs[r].pc = "processing" /\ runs'[r].pc \in {"processing", "counting"}) =>
            runs'[r].requests <=
              Len(runs'[r].outcomes)
                + (IF runs'[r].pc = "processing" /\ runs'[r].drafts # <<>> THEN 1 ELSE 0)]_vars

\* an extraction has failed after its one request: the message is back to
\* pending with the error, claimed once
C26_Witness ==
  \E r \in Runs, i \in Ids :
    /\ runs[r].requests = 1
    /\ runs[r].outcomes = <<"failed">>
    /\ incoming_messages[i].status = "pending"
    /\ incoming_messages[i].last_error = "ExtractionError"
    /\ hist[i].claims = 1

\* C27: the text sent to the model is the trimmed message cut to at most
\* MAX_MESSAGE_LENGTH characters, and the truncated flag is true exactly when
\* the trimmed message is longer than that.
C27_InputTruncation ==
  [][\A r \in Runs :
       runs'[r].requests > runs[r].requests =>
         LET trimmed == TrimEnd(TrimStart(Cur(r).text))
             sent == sanitizeMessage(Cur(r).text)
         IN /\ Len(sent.content) = Min(Len(trimmed), MAX_MESSAGE_LENGTH)
            /\ sent.content = SubSeq(trimmed, 1, Len(sent.content))
            /\ sent.truncated = (Len(trimmed) > MAX_MESSAGE_LENGTH)]_vars

\* a request was sent for a message whose trimmed text is longer than
\* MAX_MESSAGE_LENGTH
C27_Witness ==
  \E r \in Runs :
    /\ runs[r].pc = "processing" /\ runs[r].drafts # <<>> /\ runs[r].requests = 1
    /\ Len(TrimEnd(TrimStart(Cur(r).text))) > MAX_MESSAGE_LENGTH

\* --------------------------------------------------------------- C28
Substructures ==
  {"status", "deal", "property", "address", "geo", "building",
   "tenant_requirements", "media", "contact", "text", "quality", "audit"}

\* C28: whatever the candidate listing holds, the document an updateOne of
\* upsertListings writes has ingest, every other substructure and a units array
\* that is not empty, and no member of any of them, nor of any unit, is
\* undefined.
C28_SchemaDefaulting ==
  [][\A r \in Runs :
       UpsertStep(r) =>
         LET doc == properties'[UpsertId(r)].payload IN
         /\ \A m \in DOMAIN doc.ingest \ {"dedupe_key"} : doc.ingest[m] # Undefined
         /\ doc.ingest.dedupe_key.proposed # Undefined
         /\ doc.ingest.dedupe_key.proposed = JsNull =>
              doc.ingest.dedupe_key.message_id = Cur(r).message_id
         /\ DOMAIN doc.members = Substructures
         /\ \A s \in Substructures :
              /\ DOMAIN doc.members[s] # {}
              /\ \A m \in DOMAIN doc.members[s] : doc.members[s][m] # Undefined
         /\ Len(doc.units) > 0
         /\ \A i \in 1..Len(doc.units) :
              /\ DOMAIN doc.units[i] = DOMAIN UnitSchema
              /\ \A m \in DOMAIN doc.units[i] : doc.units[i][m] # Undefined
       ]_vars

\* a document written from an empty object: the defaults and one default unit
C28_Witness ==
  \E id \in DOMAIN properties :
    /\ properties[id].payload.members =
         [s \in Substructures |-> [m \in DOMAIN ListingSchema[s] |-> ListingSchema[s][m][2]]]
    /\ properties[id].payload.units = <<[m \in DOMAIN UnitSchema |-> UnitSchema[m][2]]>>
    /\ properties[id].payload.ingest.dedupe_key.ordinal = 1

\* --------------------------------------------------------------- C29
\* C29: a message becomes failed only by the failure write of a run at whose
\* maxAttempts its attempts have arrived; a failure write of a run that has
\* attempts left for the message leaves it pending; and the attempts of a
\* failed message do not go down afterwards.
C29_TerminalFailureThreshold ==
  [][\A i \in Ids :
       /\ (incoming_messages[i].status # "failed" /\ incoming_messages'[i].status = "failed") =>
            \E r \in Runs :
              /\ OutcomeStep(r, i)
              /\ LastOutcome(r) = "failed"
              /\ incoming_messages'[i].attempts >= runs[r].maxAttempts
       /\ \A r \in Runs :
            (/\ OutcomeStep(r, i)
             /\ incoming_messages'[i] # incoming_messages[i]
             /\ LastOutcome(r) = "failed"
             /\ incoming_messages'[i].attempts < runs[r].maxAttempts) =>
              incoming_messages'[i].status = "pending"
       /\ incoming_messages[i].status = "failed" =>
            incoming_messages'[i].attempts >= incoming_messages[i].attempts
       ]_vars

\* a message failed by a run with maxAttempts below the default, and another
\* run whose failure write has left a message pending
C29_Witness ==
  \E i \in Ids :
    /\ incoming_messages[i].status = "failed"
    /\ incoming_messages[i].attempts = RequestedMaxAttempts
    /\ hist[i].fails >= 2

C31_ClaimFieldConsistency ==
  \A i \in Ids :
    /\ incoming_messages[i].status = "processing" =>
         /\ incoming_messages[i].heartbeat_at # NULL
         /\ incoming_messages[i].worker_batch_id # NoBatch
         /\ incoming_messages[i].attempts >= 1
    /\ incoming_messages[i].status \in {"pending", "processed", "failed"} =>
         incoming_messages[i].heartbeat_at = NULL

\* a message processed by a run whose claim another run had taken over since
C31_Witness ==
  \E i \in Ids :
    /\ incoming_messages[i].status = "processed"
    /\ hist[i].reclaimed
    /\ incoming_messages[i].attempts >= 2
    /\ \E r \in Runs : runs[r].pc = "processing" /\ Cur(r)._id = i

C33_NoSharedListingId ==
  [][\A r \in Runs :
       (UpsertStep(r) /\ UpsertId(r) \in DOMAIN properties) =>
         /\ properties[UpsertId(r)].message_id = Cur(r).message_id
         /\ \A j \in 1..Len(properties[UpsertId(r)].linked_message_ids) :
              properties[UpsertId(r)].linked_message_ids[j] = Cur(r)._id
       ]_vars

\* --------------------------------------------------------------- C34
\* C34: when an attempt on a message ends in failure, no listing written
\* during the attempt remains in properties; for the first attempt on a
\* message this means that no record carries the reference of the message.
C34_AllOrNothing ==
  [][\A r \in Runs, i \in Ids :
       (OutcomeStep(r, i) /\ LastOutcome(r) = "failed" /\ hist[i].claims = 1) =>
         ListingsFrom(properties', i) = {}]_vars

\* --------------------------------------------------------------- C35
\* C35: a trigger call that ends, its run or request having returned or
\* thrown, leaves inFlight false; with no trigger call under way inFlight is
\* false; and a handler that has stored or refreshed something while no
\* trigger call is under way starts one (in process: a run that begins to
\* claim).
C35_TriggerNeverWedges ==
  [][/\ \A c \in Runs :
          (trigger.calls[c].pc # "idle" /\ trigger'.calls[c].pc = "idle") =>
            ~trigger'.inFlight
     /\ (\A c \in Runs : trigger'.calls[c].pc = "idle") =>
          (~trigger'.inFlight /\ shouldTrigger(trigger'))
     /\ \A d \in Handlers :
          (/\ Written(d)
           /\ intake'[d].pc = "returned"
           /\ intake[d].inserted > 0 \/ intake[d].modified > 0
           /\ \A c \in Runs : trigger.calls[c].pc = "idle") =>
            \E c \in Runs :
              /\ trigger'.calls[c].pc # "idle"
              /\ trigger'.inFlight
              /\ ~trigger.remote => runs'[c].pc = "claiming"
    ]_vars

\* the call before ended by a throw, no call was left, and a redelivery has
\* started the one call that is under way
C35_Witness ==
  /\ trigger.last = "threw"
  /\ trigger.inFlight
  /\ trigger.lastTriggerAt = 0
  /\ Cardinality({c \in Runs : trigger.calls[c].pc # "idle"}) = 1
  /\ \E d \in Handlers :
       /\ intake[d].pc = "returned"
       /\ intake[d].result.inserted = 0
       /\ intake[d].result.updated = 1

\* --------------------------------------------------------------- C36
\* C36: storeIncomingWhatsAppMessages works on the text messages of the
\* payload, the others left out, and the counts it returns are not negative
\* and add up to the number of those text messages.
C36_IntakeAccounting ==
  [][\A d \in Handlers :
       /\ (intake[d].pc # "writing" /\ intake'[d] # intake[d] /\ ~Refused(d)) =>
            \A req \in WebhookRequests :
              PostWhatsapp(d, req) =>
                intake'[d].n =
                  Cardinality({k \in 1..Len(req.body.messages) :
                                 /\ req.body.shape = "envelope"
                                 /\ req.body.messages[k].type = "text"})
       /\ (intake'[d] # intake[d] /\ intake'[d].pc = "returned") =>
            LET result == intake'[d].result IN
            /\ result.inserted >= 0 /\ result.updated >= 0 /\ result.skipped >= 0
            /\ result.inserted + result.updated + result.skipped = intake'[d].n
    ]_vars

\* one delivery of a text message was counted as inserted, another as updated
C36_Witness ==
  \E d, e \in Handlers :
    /\ intake[d].pc = "returned" /\ intake[e].pc = "returned"
    /\ intake[d].result = [inserted |-> 1, updated |-> 0, skipped |-> 0]
    /\ intake[e].result = [inserted |-> 0, updated |-> 1, skipped |-> 0]

\* --------------------------------------------------------------- C37
\* C37: what the parser keeps of a numeric member is the value when it is a
\* finite number, the number a string denotes when it denotes one, and null
\* for any other value: the empty string, a blank or non-numeric string, a
\* boolean, an array, an object, NaN, Infinity, null, or no value.
C37_NumericCoercion ==
  [][\A r \in Runs :
       (runs[r].drafts = <<>> /\ runs'[r].drafts # <<>>) =>
         \A m \in NumericMembers, value \in JsonLeaves :
           runs'[r].drafts = <<normalizeListing(NumberListing(m, value))>> =>
             LET kept == runs'[r].drafts[1].payload.members.property[m] IN
             /\ value \in RawNumbers => kept = value
             /\ value = "s:1" => kept = "n:1"
             /\ value \notin RawNumbers \cup {"s:1"} => kept = JsNull
       ]_vars

====
